---- MODULE Spec2Model ----
(***************************************************************************)
(* State-machine model of the moderation core of bills-bot: the case       *)
(* store (getNextCaseNumber / createCase / case delete) and the tempban    *)
(* scheduler (startTempbanScheduler / stopTempbanScheduler / pollTempbans).*)
(* Every await of the JavaScript code is a point where other tasks may     *)
(* run, so every store statement and every Discord call is one step.       *)
(***************************************************************************)
EXTENDS Integers, Sequences, FiniteSets, TLC

(* ------------------------------ bounds --------------------------------- *)
NumCallers == 2
MaxCreates == 3
MaxDeletes == 1
MaxFailures == 1
NumRows == 2
MaxNow == 1
MaxPolls == 2
MaxTimers == 2
MaxWarns == 6
MaxThresholds == 2
MaxPosition == 3
MaxDays == 21

(* ----------------------------- constants ------------------------------- *)
NULL == "null"
Guilds == {"guild1", "guild2"}
Callers == 1..NumCallers
RowIds == 1..NumRows
Polls == 1..MaxPolls
TimerIds == 1..MaxTimers
BotId == "bot1"
\* the value of the interval handle while no timer is set (null)
NoHandle == 0

VARIABLES
    cases,        \* rows of mod_cases
    nextCaseId,   \* the SERIAL sequence behind mod_cases.id
    cpc,          \* per createCase caller: where the call stands
    cguild,       \* per caller: the guildId argument
    cnum,         \* per caller: the number getNextCaseNumber returned
    cerr,         \* per caller: why the call rejected
    creates,      \* createCase calls started so far
    deleted,      \* <<guild, case_number>> pairs removed by /case delete
    issued,       \* per guild: the numbers createCase has handed out
    failures,     \* store statements and unban calls that have failed so far
    schedRows,    \* ids of the rows of mod_scheduled_actions
    executed,     \* per row: the executed column
    banned,       \* per row: whether the target is still banned in its guild
    now,          \* the clock NOW() reads
    schedulerInterval, \* the module-scope interval handle, NoHandle when stopped
    timers,       \* the interval timers the runtime holds active
    ppc,          \* per pollTempbans invocation: where it stands
    prows,        \* per invocation: the rows its query returned
    pidx,         \* per invocation: index of the row being processed
    pnum,         \* per invocation: the case number allocated for the row
    pattempted,   \* per invocation: rows whose unban it has called
    lastCall,     \* what the latest start or stop call did
    epc,          \* checkEscalation: where the call stands
    ecfg,         \* checkEscalation: the config argument
    emod,         \* checkEscalation: the moderatorId argument
    eidx,         \* checkEscalation: index of the threshold being evaluated
    ecount,       \* checkEscalation: the count the latest COUNT query returned
    enum,         \* checkEscalation: the case number allocated by createCase
    eresult,      \* checkEscalation: id of the case returned, 0 for null
    equeries,     \* COUNT queries checkEscalation has made
    efetched,     \* checkEscalation has fetched the guild and the member
    eapplied,     \* the actions checkEscalation has applied to the target
    elog,         \* what became of the mod-log post of checkEscalation
    hfn,          \* the helper of moderation.js called last, NULL before any call
    hpos,         \* checkHierarchy: <<moderator, target>> highest role positions
    hcfg,         \* shouldSendDm: the config argument
    haction,      \* shouldSendDm, sendDmNotification: the action argument
    hsend,        \* sendDmNotification: what member.send did
    hout,         \* what the helper call gave back
    lpc,          \* sendModLogEmbed: where the call stands
    lcfg,         \* sendModLogEmbed: the config argument
    laction,      \* sendModLogEmbed: caseData.action
    lchan,        \* sendModLogEmbed: the channel id it resolved, NULL for none
    lfetches,     \* the channel ids client.channels.fetch was called with
    lresult,      \* sendModLogEmbed: the message returned, NULL for null
    bpc,          \* /ban: where execute stands
    bin,          \* /ban: the interaction (role positions) and the config
    bmember,      \* /ban: what the member fetch gave
    bcalls,       \* /ban: the Discord and store effects so far, in order
    bcontent,     \* /ban: the content of the reply being sent
    breply,       \* /ban: the reply the moderator has received, NULL for none
    bnum,         \* /ban: the case number allocated by createCase
    bcase,        \* /ban: id of the case createCase returned, 0 for none
    spc,          \* /slowmode: where execute stands
    stext,        \* /slowmode: the duration option
    sseconds,     \* /slowmode: the seconds computed
    srate,        \* the rate limit of the channel, NoRate while never set
    ssets,        \* calls of channel.setRateLimitPerUser so far
    scontent,     \* /slowmode: the content of the reply being sent
    sreply,       \* /slowmode: the reply the moderator has received
    dtext,        \* duration codec: the text given to parseDuration
    dms,          \* duration codec: what parseDuration returned for it
    dfmt,         \* duration codec: what formatDuration returned for dms
    dback,        \* duration codec: what parseDuration returned for dfmt
    rpc,          \* withRetry: where the call stands
    rmax,         \* withRetry: maxRetries in effect
    rshould,      \* withRetry: the shouldRetry option, NULL for the default
    rcalls,       \* withRetry: invocations of fn so far
    rerrors,      \* withRetry: the errors fn has thrown, in order
    rthrown,      \* withRetry: index in rerrors of the error rethrown, 0 for none
    configCache,  \* config.js: the in-memory cache, section -> key -> value
    configTable,  \* the config table, section -> key -> value
    setpc,         \* per setConfigValue call: where it stands
    setarg,         \* per setConfigValue call: <<key, value>> of the path and value
    newSectionConfig,       \* per setConfigValue call: newSectionConfig
    cacheBefore,      \* per setConfigValue call: the cache when the call began
    clock,        \* Date.now(), in minutes
    rateConfig,   \* config.rateLimit
    userRateLimits,    \* logger.js: user -> stored timestamps
    channelRateLimits, \* logger.js: channel -> stored timestamps
    userAllowed,  \* per user and minute: requests answered allowed
    channelAllowed, \* per channel and minute: requests answered allowed
    lastCheck     \* the latest checkRateLimit call and its answer

caseVars == <<cases, nextCaseId, cpc, cguild, cnum, cerr, creates, deleted,
              issued, failures>>

schedVars == <<schedRows, executed, banned, now, schedulerInterval, timers,
               ppc, prows, pidx, pnum, pattempted, lastCall>>

pollVars == <<ppc, prows, pidx, pnum, pattempted>>

schedRest == <<schedRows, executed, banned, now, schedulerInterval, timers, lastCall>>

escVars == <<epc, ecfg, emod, eidx, ecount, enum, eresult, equeries, efetched,
             eapplied, elog>>

helperVars == <<hfn, hpos, hcfg, haction, hsend, hout>>

logVars == <<lpc, lcfg, laction, lchan, lfetches, lresult>>

banVars == <<bpc, bin, bmember, bcalls, bcontent, breply, bnum, bcase>>

slowVars == <<spc, stext, sseconds, srate, ssets, scontent, sreply>>

durVars == <<dtext, dms, dfmt, dback>>

cmdVars == <<helperVars, logVars, banVars, slowVars, durVars>>

retryVars == <<rpc, rmax, rshould, rcalls, rerrors, rthrown>>

configVars == <<configCache, configTable, setpc, setarg, newSectionConfig, cacheBefore>>

rateVars == <<clock, rateConfig, userRateLimits, channelRateLimits, userAllowed,
              channelAllowed, lastCheck>>

utilVars == <<retryVars, configVars, rateVars>>

vars == <<caseVars, schedVars, escVars, cmdVars, utilVars>>

(* ----------------------------- case store ------------------------------ *)
GuildCases(g) == {c \in cases : c.guild_id = g}

GuildNumbers(g) == {c.case_number : c \in GuildCases(g)}

\* MAX(case_number) over a non-empty set of numbers
MaxOf(S) == CHOOSE m \in S : \A n \in S : n <= m

\* a numbering that counts the rows instead of taking the maximum
GetNextCaseNumberByCount(g) == Cardinality(GuildCases(g)) + 1

\* a numbering that forgets the WHERE guild_id = $1 filter
GetNextCaseNumberAnyGuild(g) ==
    IF cases = {} THEN 1
    ELSE MaxOf({c.case_number : c \in cases}) + 1

\* SELECT MAX(case_number) AS max_num FROM mod_cases WHERE guild_id = $1;
\* max_num is null when the guild has no rows, and the result is then 1
GetNextCaseNumber(g) ==
    IF GuildNumbers(g) = {} THEN 1 ELSE MaxOf(GuildNumbers(g)) + 1

\* a table without the UNIQUE(guild_id, case_number) constraint
NoUniqueConstraint(g, n) == FALSE

\* UNIQUE(guild_id, case_number): the INSERT is rejected when the pair exists
UniqueViolation(g, n) == \E c \in cases : c.guild_id = g /\ c.case_number = n

\* a row of mod_cases; ref is the tempban case the reason names, 0 for none.
\* Columns no statement below reads back (reason text, duration, expires_at,
\* log_message_id, created_at) are left out of the record.
NewCase(id, g, n, action, target, moderator, ref) ==
    [id |-> id, guild_id |-> g, case_number |-> n, action |-> action,
     target_id |-> target, moderator_id |-> moderator, ref |-> ref]

\* the calls (store statements, unban calls) that may still be made to fail
CanFail == failures < MaxFailures

\* createCase, first statement: the call starts and awaits getNextCaseNumber
CreateCaseSelect(p, g) ==
    /\ cpc[p] = "idle"
    /\ creates < MaxCreates
    /\ creates' = creates + 1
    /\ cguild' = [cguild EXCEPT ![p] = g]
    /\ cnum' = [cnum EXCEPT ![p] = GetNextCaseNumber(g)]
    /\ cpc' = [cpc EXCEPT ![p] = "insert"]
    /\ cerr' = [cerr EXCEPT ![p] = NULL]
    /\ UNCHANGED <<cases, nextCaseId, deleted, issued, failures>>
    /\ UNCHANGED <<schedVars, escVars, cmdVars, utilVars>>

\* createCase, second statement: INSERT INTO mod_cases ... RETURNING *
CreateCaseInsert(p) ==
    /\ cpc[p] = "insert"
    /\ IF UniqueViolation(cguild[p], cnum[p])
       THEN /\ cpc' = [cpc EXCEPT ![p] = "failed"]
            /\ cerr' = [cerr EXCEPT ![p] = "unique"]
            /\ UNCHANGED <<cases, nextCaseId, issued>>
       ELSE /\ cases' = cases \cup
                  {NewCase(nextCaseId, cguild[p], cnum[p], "warn", 1, "mod1", 0)}
            /\ nextCaseId' = nextCaseId + 1
            /\ issued' = [issued EXCEPT ![cguild[p]] = @ \cup {cnum[p]}]
            /\ cpc' = [cpc EXCEPT ![p] = "done"]
            /\ UNCHANGED cerr
    /\ UNCHANGED <<cguild, cnum, creates, deleted, failures>>
    /\ UNCHANGED <<schedVars, escVars, cmdVars, utilVars>>

\* the store rejects the SELECT for a reason of its own (connection lost):
\* getNextCaseNumber rejects and createCase rejects with it
CreateCaseSelectError(p, g) ==
    /\ cpc[p] = "idle"
    /\ creates < MaxCreates
    /\ CanFail
    /\ creates' = creates + 1
    /\ failures' = failures + 1
    /\ cguild' = [cguild EXCEPT ![p] = g]
    /\ cpc' = [cpc EXCEPT ![p] = "failed"]
    /\ cerr' = [cerr EXCEPT ![p] = "store"]
    /\ UNCHANGED <<cases, nextCaseId, cnum, deleted, issued>>
    /\ UNCHANGED <<schedVars, escVars, cmdVars, utilVars>>

\* the store rejects the INSERT for a reason of its own
CreateCaseInsertError(p) ==
    /\ cpc[p] = "insert"
    /\ CanFail
    /\ failures' = failures + 1
    /\ cpc' = [cpc EXCEPT ![p] = "failed"]
    /\ cerr' = [cerr EXCEPT ![p] = "store"]
    /\ UNCHANGED <<cases, nextCaseId, cguild, cnum, creates, deleted, issued>>
    /\ UNCHANGED <<schedVars, escVars, cmdVars, utilVars>>

\* the caller has its result (the case, or the error) and may call again
CreateCaseReturn(p) ==
    /\ cpc[p] \in {"done", "failed"}
    /\ cpc' = [cpc EXCEPT ![p] = "idle"]
    /\ cguild' = [cguild EXCEPT ![p] = "guild1"]
    /\ cnum' = [cnum EXCEPT ![p] = 0]
    /\ cerr' = [cerr EXCEPT ![p] = NULL]
    /\ UNCHANGED <<cases, nextCaseId, creates, deleted, issued, failures>>
    /\ UNCHANGED <<schedVars, escVars, cmdVars, utilVars>>

\* /case delete: DELETE FROM mod_cases WHERE guild_id = $1 AND case_number = $2
DeleteCase(g, n) ==
    /\ Cardinality(deleted) < MaxDeletes
    /\ \E c \in cases : c.guild_id = g /\ c.case_number = n
    /\ cases' = {c \in cases : ~(c.guild_id = g /\ c.case_number = n)}
    /\ deleted' = deleted \cup {<<g, n>>}
    /\ UNCHANGED <<nextCaseId, cpc, cguild, cnum, cerr, creates, issued,
                   failures>>
    /\ UNCHANGED <<schedVars, escVars, cmdVars, utilVars>>

(* ------------------------- tempban scheduler --------------------------- *)
\* the columns of a mod_scheduled_actions row, fixed when /tempban wrote it
RowGuild(r) == IF r % 2 = 1 THEN "guild1" ELSE "guild2"

RowTarget(r) == r

RowCaseId(r) == r

RowExecuteAt(r) == IF r - 1 < MaxNow THEN r - 1 ELSE MaxNow

\* the tempban case a row refers to (case_id REFERENCES mod_cases(id))
TempbanCase(r) ==
    NewCase(RowCaseId(r), RowGuild(r), (r + 1) \div 2, "tempban", RowTarget(r), "mod1", 0)

\* a query with the comparison the wrong way round: execute_at > NOW()
DueRowsNotYetDue == {r \in schedRows : ~executed[r] /\ RowExecuteAt(r) > now}

\* a query that forgets the executed = FALSE condition
DueRowsIgnoringExecuted == {r \in schedRows : RowExecuteAt(r) <= now}

\* WHERE executed = FALSE AND execute_at <= NOW()
DueRows == {r \in schedRows : ~executed[r] /\ RowExecuteAt(r) <= now}

\* the rows of a result set, by ascending id
RECURSIVE RowSeq(_)
RowSeq(S) ==
    IF S = {} THEN <<>>
    ELSE LET r == CHOOSE x \in S : \A y \in S : x <= y
         IN  <<r>> \o RowSeq(S \ {r})

Range(q) == {q[i] : i \in 1..Len(q)}

CurRow(p) == prows[p][pidx[p]]

IdlePolls == {p \in Polls : ppc[p] = "idle"}

FreePoll == CHOOSE p \in IdlePolls : \A q \in IdlePolls : p <= q

FreeTimer == CHOOSE t \in TimerIds \ timers : \A u \in TimerIds \ timers : t <= u

\* pollTempbans(client) is called: its SELECT is on its way to the store
LaunchPoll(p) ==
    /\ ppc' = [ppc EXCEPT ![p] = "query"]
    /\ UNCHANGED <<prows, pidx, pnum, pattempted>>

\* a start that does not look at the handle it already holds
StartUnguarded == FALSE

\* startTempbanScheduler: if (schedulerInterval) return
AlreadyRunning == schedulerInterval # NoHandle

\* a start that only sets the interval and leaves the first poll to it
NoImmediatePoll == UNCHANGED pollVars

\* startTempbanScheduler: pollTempbans(client) is called before setInterval
ImmediatePoll == LaunchPoll(FreePoll)

\* a stop that drops the handle and leaves the interval set
KeepInterval(h) == timers

\* clearInterval(h)
ClearInterval(h) == timers \ {h}

\* startTempbanScheduler(client): immediate poll, then setInterval(60000)
StartTempbanScheduler ==
    IF AlreadyRunning
    THEN /\ lastCall' = "start ignored"
         /\ UNCHANGED <<schedRows, executed, banned, now, schedulerInterval,
                        timers, pollVars>>
         /\ UNCHANGED <<caseVars, escVars, cmdVars, utilVars>>
    ELSE /\ IdlePolls # {}
         /\ TimerIds \ timers # {}
         /\ ImmediatePoll
         /\ timers' = timers \cup {FreeTimer}
         /\ schedulerInterval' = FreeTimer
         /\ lastCall' = "started"
         /\ UNCHANGED <<schedRows, executed, banned, now>>
         /\ UNCHANGED <<caseVars, escVars, cmdVars, utilVars>>

\* stopTempbanScheduler(): clearInterval(schedulerInterval), handle = null
StopTempbanScheduler ==
    IF schedulerInterval = NoHandle
    THEN /\ lastCall' = "stop ignored"
         /\ UNCHANGED <<schedRows, executed, banned, now, schedulerInterval,
                        timers, pollVars>>
         /\ UNCHANGED <<caseVars, escVars, cmdVars, utilVars>>
    ELSE /\ timers' = ClearInterval(schedulerInterval)
         /\ schedulerInterval' = NoHandle
         /\ lastCall' = "stopped"
         /\ UNCHANGED <<schedRows, executed, banned, now, pollVars>>
         /\ UNCHANGED <<caseVars, escVars, cmdVars, utilVars>>

\* an active interval timer fires after 60 seconds and calls pollTempbans
TimerFire(t) ==
    /\ t \in timers
    /\ IdlePolls # {}
    /\ LaunchPoll(FreePoll)
    /\ UNCHANGED <<schedRows, executed, banned, now, schedulerInterval, timers, lastCall>>
    /\ UNCHANGED <<caseVars, escVars, cmdVars, utilVars>>

\* time passes
AdvanceClock ==
    /\ now < MaxNow
    /\ now' = now + 1
    /\ UNCHANGED <<schedRows, executed, banned, schedulerInterval, timers,
                   pollVars, lastCall>>
    /\ UNCHANGED <<caseVars, escVars, cmdVars, utilVars>>

\* the poll goes on with the row after the current one, or ends
AdvanceRow(p) ==
    IF pidx[p] < Len(prows[p])
    THEN /\ pidx' = [pidx EXCEPT ![p] = @ + 1]
         /\ ppc' = [ppc EXCEPT ![p] = "unban"]
    ELSE /\ pidx' = pidx
         /\ ppc' = [ppc EXCEPT ![p] = "done"]

\* a handler that lets the row's error escape the loop
RethrowRowError(p) ==
    /\ pidx' = pidx
    /\ ppc' = [ppc EXCEPT ![p] = "raised"]

\* catch: log error, continue to next
CatchRowError(p) == AdvanceRow(p)

\* rows = SELECT * FROM mod_scheduled_actions WHERE executed = FALSE AND
\* execute_at <= NOW(); then the loop starts with the first row
PollQuery(p) ==
    /\ ppc[p] = "query"
    /\ prows' = [prows EXCEPT ![p] = RowSeq(DueRows)]
    /\ pidx' = [pidx EXCEPT ![p] = IF DueRows = {} THEN 0 ELSE 1]
    /\ ppc' = [ppc EXCEPT ![p] = IF DueRows = {} THEN "done" ELSE "unban"]
    /\ UNCHANGED <<pnum, pattempted>>
    /\ UNCHANGED <<schedRows, executed, banned, now, schedulerInterval, timers, lastCall>>
    /\ UNCHANGED <<caseVars, escVars, cmdVars, utilVars>>

\* a guild that accepts the unban of a user who is not banned
UnbanAlwaysAccepted(r) == TRUE

\* Discord accepts an unban only while the ban exists (Unknown Ban otherwise)
UnbanAccepted(r) == banned[r]

\* guild.members.unban(row.target_id, 'Tempban expired') resolves
PollUnban(p) ==
    /\ ppc[p] = "unban"
    /\ UnbanAccepted(CurRow(p))
    /\ banned' = [banned EXCEPT ![CurRow(p)] = FALSE]
    /\ pattempted' = [pattempted EXCEPT ![p] = @ \cup {CurRow(p)}]
    /\ ppc' = [ppc EXCEPT ![p] = "update"]
    /\ UNCHANGED <<prows, pidx, pnum>>
    /\ UNCHANGED <<schedRows, executed, now, schedulerInterval, timers, lastCall>>
    /\ UNCHANGED <<caseVars, escVars, cmdVars, utilVars>>

\* the unban call rejects: the ban is already gone, or the guild cannot be
\* reached; the row's catch block takes over
PollUnbanFails(p) ==
    /\ ppc[p] = "unban"
    /\ \/ /\ ~UnbanAccepted(CurRow(p))
          /\ UNCHANGED failures
       \/ /\ banned[CurRow(p)]
          /\ CanFail
          /\ failures' = failures + 1
    /\ pattempted' = [pattempted EXCEPT ![p] = @ \cup {CurRow(p)}]
    /\ CatchRowError(p)
    /\ UNCHANGED <<prows, pnum>>
    /\ UNCHANGED <<schedRows, executed, banned, now, schedulerInterval, timers,
                   lastCall>>
    /\ UNCHANGED <<cases, nextCaseId, cpc, cguild, cnum, cerr, creates, deleted,
                   issued>>
    /\ UNCHANGED <<escVars, cmdVars, utilVars>>

\* an UPDATE that forgets its WHERE id = $1
MarkAllExecuted(r) == [x \in RowIds |-> TRUE]

\* UPDATE mod_scheduled_actions SET executed = TRUE WHERE id = $1
MarkExecuted(r) == [executed EXCEPT ![r] = TRUE]

PollUpdate(p) ==
    /\ ppc[p] = "update"
    /\ executed' = MarkExecuted(CurRow(p))
    /\ ppc' = [ppc EXCEPT ![p] = "nextnum"]
    /\ UNCHANGED <<prows, pidx, pnum, pattempted>>
    /\ UNCHANGED <<schedRows, banned, now, schedulerInterval, timers, lastCall>>
    /\ UNCHANGED <<caseVars, escVars, cmdVars, utilVars>>

\* createCase for the unban, first statement: getNextCaseNumber
PollNextNum(p) ==
    /\ ppc[p] = "nextnum"
    /\ pnum' = [pnum EXCEPT ![p] = GetNextCaseNumber(RowGuild(CurRow(p)))]
    /\ ppc' = [ppc EXCEPT ![p] = "insert"]
    /\ UNCHANGED <<prows, pidx, pattempted>>
    /\ UNCHANGED <<schedRows, executed, banned, now, schedulerInterval, timers, lastCall>>
    /\ UNCHANGED <<caseVars, escVars, cmdVars, utilVars>>

\* an unban case attributed to the moderator of the tempban
UnbanCaseByModerator(r, id, n) ==
    NewCase(id, RowGuild(r), n, "unban", RowTarget(r), "mod1", RowCaseId(r))

\* action 'unban', moderator client.user, reason 'Tempban expired (case #N)'
UnbanCase(r, id, n) ==
    NewCase(id, RowGuild(r), n, "unban", RowTarget(r), BotId, RowCaseId(r))

\* createCase for the unban, second statement: the INSERT; a duplicate
\* number is rejected and the row's catch block takes over. After the INSERT
\* comes sendModLogEmbed, which never throws and writes nothing but the
\* log_message_id of the new case, so the loop goes on to the next row.
PollInsert(p) ==
    /\ ppc[p] = "insert"
    /\ IF UniqueViolation(RowGuild(CurRow(p)), pnum[p])
       THEN /\ CatchRowError(p)
            /\ UNCHANGED <<cases, nextCaseId, issued>>
       ELSE /\ cases' = cases \cup {UnbanCase(CurRow(p), nextCaseId, pnum[p])}
            /\ nextCaseId' = nextCaseId + 1
            /\ issued' = [issued EXCEPT ![RowGuild(CurRow(p))] = @ \cup {pnum[p]}]
            /\ AdvanceRow(p)
    /\ pnum' = [pnum EXCEPT ![p] = 0]
    /\ UNCHANGED <<prows, pattempted>>
    /\ UNCHANGED <<cpc, cguild, cnum, cerr, creates, deleted, failures>>
    /\ UNCHANGED <<schedRest, escVars, cmdVars, utilVars>>

\* a store statement of the row (UPDATE, SELECT MAX or INSERT) throws; the
\* row's catch block takes over
PollStoreError(p) ==
    /\ ppc[p] \in {"update", "nextnum", "insert"}
    /\ CanFail
    /\ failures' = failures + 1
    /\ CatchRowError(p)
    /\ pnum' = [pnum EXCEPT ![p] = 0]
    /\ UNCHANGED <<prows, pattempted>>
    /\ UNCHANGED <<cases, nextCaseId, cpc, cguild, cnum, cerr, creates, deleted,
                   issued>>
    /\ UNCHANGED <<schedRest, escVars, cmdVars, utilVars>>

\* the invocations in flight are numbered in the order they were called:
\* when invocation p is gone, the later ones move up by one
Shift(f, p, init) ==
    [q \in Polls |-> IF q < p THEN f[q]
                     ELSE IF q < MaxPolls THEN f[q + 1] ELSE init]

\* the promise pollTempbans returned settles; its locals are gone (pnum,
\* scoped to one createCase call, went before)
PollFinish(p) ==
    /\ ppc[p] = "done"
    /\ ppc' = Shift(ppc, p, "idle")
    /\ prows' = Shift(prows, p, <<>>)
    /\ pidx' = Shift(pidx, p, 0)
    /\ pnum' = Shift(pnum, p, 0)
    /\ pattempted' = Shift(pattempted, p, {})
    /\ UNCHANGED schedRest
    /\ UNCHANGED <<caseVars, escVars, cmdVars, utilVars>>

(* --------------------------- auto-escalation --------------------------- *)
\* the arguments every checkEscalation call of the model is made with
EscGuild == "guild1"

EscTarget == 1

Moderators == {"mod1", "mod2"}

\* the values thresholds are configured with: warns, withinDays, action
WarnLevels == {3, 5}

Windows == {7, 30}

EscActions == {"timeout", "ban"}

\* { "warns": 3, "withinDays": 7, "action": "timeout", "duration": "1h" }
Threshold(w, d, a) ==
    [warns |-> w, withinDays |-> d, action |-> a,
     duration |-> IF a = "timeout" THEN "1h" ELSE NULL]

Thresholds == {Threshold(w, d, a) : w \in WarnLevels, d \in Windows, a \in EscActions}

ThresholdLists == UNION {[1..n -> Thresholds] : n \in 0..MaxThresholds}

\* config.moderation.escalation: enabled, and thresholds, which may be missing
Configs ==
    {[enabled |-> e, hasThresholds |-> TRUE, thresholds |-> l] :
        e \in BOOLEAN, l \in ThresholdLists}
    \cup {[enabled |-> e, hasThresholds |-> FALSE, thresholds |-> <<>>] : e \in BOOLEAN}

\* a row of mod_cases with the columns checkEscalation reads and writes:
\* created_at as the age of the row in days, reason as the count and the
\* window it names (0 and 0 for any other reason), and duration
AgedCase(id, g, n, action, target, moderator, age, count, days, duration) ==
    [id |-> id, guild_id |-> g, case_number |-> n, action |-> action,
     target_id |-> target, moderator_id |-> moderator, ref |-> 0,
     created_days_ago |-> age, reason_count |-> count, reason_days |-> days,
     duration |-> duration]

\* the case history checkEscalation runs against: n0 warns of the target
\* from today and n7 warns from seven days ago, and next to them a warn of
\* the target from thirty days ago, a kick of the target, a warn of another
\* member and a warn of the target in another guild
History(n0, n7) ==
    {AgedCase(i, EscGuild, i, "warn", EscTarget, "mod1",
              IF i <= n0 THEN 0 ELSE 7, 0, 0, NULL) : i \in 1..(n0 + n7)}
    \cup {AgedCase(n0 + n7 + 1, EscGuild, n0 + n7 + 1, "warn", EscTarget, "mod1", 30, 0, 0, NULL),
          AgedCase(n0 + n7 + 2, EscGuild, n0 + n7 + 2, "kick", EscTarget, "mod1", 0, 0, 0, NULL),
          AgedCase(n0 + n7 + 3, EscGuild, n0 + n7 + 3, "warn", EscTarget + 1, "mod1", 0, 0, 0, NULL),
          AgedCase(n0 + n7 + 4, "guild2", 1, "warn", EscTarget, "mod1", 0, 0, 0, NULL)}

\* SELECT COUNT(*) FROM mod_cases WHERE guild_id = $1 AND target_id = $2
\* AND action = 'warn' AND created_at > NOW() - INTERVAL '$withinDays days'
CountWarns(g, t, days) ==
    Cardinality({c \in cases : c.guild_id = g /\ c.target_id = t
                                /\ c.action = "warn" /\ c.created_days_ago < days})

\* a check that looks at the thresholds even when enabled is false
OffOnlyWithoutThresholds(cfg) == ~cfg.hasThresholds \/ Len(cfg.thresholds) = 0

\* if (!escalation.enabled) return null; no thresholds: return null
EscalationOff(cfg) ==
    ~cfg.enabled \/ ~cfg.hasThresholds \/ Len(cfg.thresholds) = 0

\* a loop that walks the thresholds from the last to the first
ThresholdFromEnd(cfg, i) == cfg.thresholds[Len(cfg.thresholds) - i + 1]

\* for each threshold in config.moderation.escalation.thresholds
ThresholdAt(cfg, i) == cfg.thresholds[i]

\* a comparison that needs one warn more
FiresAbove(count, th) == count > th.warns

\* if count >= threshold.warns
Fires(count, th) == count >= th.warns

\* an escalation case attributed to the bot
EscalationCaseByBot(id, n, th, count, moderator) ==
    AgedCase(id, EscGuild, n, th.action, EscTarget, BotId, 0, count,
             th.withinDays, th.duration)

\* create case with reason "Auto-escalation: {count} warns in {withinDays}
\* days", the threshold's action and duration, the moderator of the warn
EscalationCase(id, n, th, count, moderator) ==
    AgedCase(id, EscGuild, n, th.action, EscTarget, moderator, 0, count,
             th.withinDays, th.duration)

\* an action error that is caught and turned into a null result
SwallowActionError == "returned"

\* a rejected action that is passed over: the case is created all the same
CaseDespiteActionError == "nextnum"

\* the error of member.timeout / guild.members.ban reaches the caller
OnActionError == "raised"

\* a member that is gone is passed over and the case is created all the same
IgnoreMemberGone == "nextnum"

\* the member is no longer in the guild: log and return null
OnMemberGone == "returned"

\* a mod-log post whose failure reaches the caller
RaiseOnLogFailure(outcome) == IF outcome = "delivered" THEN "returned" ELSE "raised"

\* sendModLogEmbed returns the message or null, it never throws
AfterLog(outcome) == "returned"

LogOutcomes == {"delivered", "no channel", "fetch failed", "send failed"}

CurThreshold == ThresholdAt(ecfg, eidx)

\* checkEscalation(client, guildId, targetId, moderatorId, moderatorTag,
\* config) is called: with escalation off it returns null at once, otherwise
\* the loop starts with the first threshold
CheckEscalation(cfg, moderator) ==
    /\ epc = "idle"
    /\ ecfg' = cfg
    /\ emod' = moderator
    /\ IF EscalationOff(cfg)
       THEN /\ epc' = "returned"
            /\ eidx' = eidx
       ELSE /\ epc' = "count"
            /\ eidx' = 1
    /\ UNCHANGED <<ecount, enum, eresult, equeries, efetched, eapplied, elog>>
    /\ UNCHANGED <<caseVars, schedVars, cmdVars, utilVars>>

\* the COUNT query of the current threshold answers: the threshold fires, or
\* the loop goes on with the next one, or the thresholds are used up and the
\* call returns null
EscCount ==
    /\ epc = "count"
    /\ equeries' = equeries + 1
    /\ LET count == CountWarns(EscGuild, EscTarget, CurThreshold.withinDays)
       IN  /\ ecount' = count
           /\ IF Fires(count, CurThreshold)
              THEN epc' = "fetch" /\ eidx' = eidx
              ELSE IF eidx < Len(ecfg.thresholds)
                   THEN epc' = "count" /\ eidx' = eidx + 1
                   ELSE epc' = "returned" /\ eidx' = eidx
    /\ UNCHANGED <<ecfg, emod, enum, eresult, efetched, eapplied, elog>>
    /\ UNCHANGED <<caseVars, schedVars, cmdVars, utilVars>>

\* client.guilds.fetch and guild.members.fetch answer with the member
EscFetch ==
    /\ epc = "fetch"
    /\ efetched' = TRUE
    /\ epc' = "action"
    /\ UNCHANGED <<ecfg, emod, eidx, ecount, enum, eresult, equeries, eapplied, elog>>
    /\ UNCHANGED <<caseVars, schedVars, cmdVars, utilVars>>

\* the member fetch fails: the target has left the guild
EscMemberGone ==
    /\ epc = "fetch"
    /\ efetched' = TRUE
    /\ epc' = OnMemberGone
    /\ UNCHANGED <<ecfg, emod, eidx, ecount, enum, eresult, equeries, eapplied, elog>>
    /\ UNCHANGED <<caseVars, schedVars, cmdVars, utilVars>>

\* member.timeout(ms, reason) or guild.members.ban(targetId, { reason })
\* resolves
EscApply ==
    /\ epc = "action"
    /\ eapplied' = Append(eapplied, CurThreshold.action)
    /\ epc' = "nextnum"
    /\ UNCHANGED <<ecfg, emod, eidx, ecount, enum, eresult, equeries, efetched, elog>>
    /\ UNCHANGED <<caseVars, schedVars, cmdVars, utilVars>>

\* the timeout or the ban is rejected (the bot lacks the permission)
EscApplyFails ==
    /\ epc = "action"
    /\ epc' = OnActionError
    /\ UNCHANGED <<ecfg, emod, eidx, ecount, enum, eresult, equeries, efetched,
                   eapplied, elog>>
    /\ UNCHANGED <<caseVars, schedVars, cmdVars, utilVars>>

\* createCase for the escalation, first statement: getNextCaseNumber
EscNextNum ==
    /\ epc = "nextnum"
    /\ enum' = GetNextCaseNumber(EscGuild)
    /\ epc' = "insert"
    /\ UNCHANGED <<ecfg, emod, eidx, ecount, eresult, equeries, efetched, eapplied, elog>>
    /\ UNCHANGED <<caseVars, schedVars, cmdVars, utilVars>>

\* createCase for the escalation, second statement: the INSERT; a duplicate
\* number is rejected and the error leaves checkEscalation
EscInsert ==
    /\ epc = "insert"
    /\ IF UniqueViolation(EscGuild, enum)
       THEN /\ epc' = "raised"
            /\ UNCHANGED <<cases, nextCaseId, issued, eresult>>
       ELSE /\ cases' = cases \cup
                   {EscalationCase(nextCaseId, enum, CurThreshold, ecount, emod)}
            /\ nextCaseId' = nextCaseId + 1
            /\ issued' = [issued EXCEPT ![EscGuild] = @ \cup {enum}]
            /\ eresult' = nextCaseId
            /\ epc' = "log"
    /\ UNCHANGED <<ecfg, emod, eidx, ecount, enum, equeries, efetched, eapplied, elog>>
    /\ UNCHANGED <<cpc, cguild, cnum, cerr, creates, deleted, failures>>
    /\ UNCHANGED <<schedVars, cmdVars, utilVars>>

\* a store statement of checkEscalation (COUNT, SELECT MAX or INSERT) throws
\* and the error leaves checkEscalation
EscStoreError ==
    /\ epc \in {"count", "nextnum", "insert"}
    /\ CanFail
    /\ failures' = failures + 1
    /\ epc' = "raised"
    /\ UNCHANGED <<ecfg, emod, eidx, ecount, enum, eresult, equeries, efetched,
                   eapplied, elog>>
    /\ UNCHANGED <<cases, nextCaseId, cpc, cguild, cnum, cerr, creates, deleted,
                   issued>>
    /\ UNCHANGED <<schedVars, cmdVars, utilVars>>

\* sendModLogEmbed(client, config, escalationCase) settles: the embed is
\* delivered, or no channel is configured, or the channel cannot be fetched,
\* or the send is rejected; then the case is returned
EscLog(outcome) ==
    /\ epc = "log"
    /\ elog' = outcome
    /\ epc' = AfterLog(outcome)
    /\ UNCHANGED <<ecfg, emod, eidx, ecount, enum, eresult, equeries, efetched, eapplied>>
    /\ UNCHANGED <<caseVars, schedVars, cmdVars, utilVars>>

(* ------------------ hierarchy, DM policy, log routing ------------------ *)
\* roles.highest.position of a member
Positions == 1..MaxPosition

\* the toggles of config.moderation.dmNotifications
DmKeys == {"warn", "timeout", "kick", "ban"}

\* a toggle is true, false, or absent from the section
Toggles == {"true", "false", "undefined"}

\* the keys of config.moderation.logging.channels
LogKeys == {"default", "warns", "bans"}

\* the action argument of the helpers
ModActions == {"warn", "kick", "timeout", "ban", "tempban", "softban", "unban"}

\* the actions whose mod-log channel key the tests name
LogActions == {"warn", "ban"}

\* config.moderation: the dmNotifications section and the logging section,
\* each of which may be missing
DmSections == [DmKeys -> Toggles]

ChannelIds == {"123", "456"}

LogSections == [LogKeys -> ChannelIds \cup {NULL}]

NoDm == [k \in DmKeys |-> "undefined"]

NoChannels == [k \in LogKeys |-> NULL]

ModConfig(hasDm, dm, hasLogging, channels) ==
    [hasDmNotifications |-> hasDm, dmNotifications |-> dm,
     hasLogging |-> hasLogging, channels |-> channels]

EmptyConfig == ModConfig(FALSE, NoDm, FALSE, NoChannels)

\* the configs shouldSendDm is given
DmConfigs ==
    {EmptyConfig} \cup {ModConfig(TRUE, dm, FALSE, NoChannels) : dm \in DmSections}

\* the configs sendModLogEmbed is given
LogConfigs ==
    {EmptyConfig} \cup {ModConfig(FALSE, NoDm, TRUE, ch) : ch \in LogSections}

\* the configs getConfig() hands to /ban: only the ban toggle is read
BanConfigs ==
    {ModConfig(d.hasDmNotifications, d.dmNotifications, l.hasLogging, l.channels) :
        d \in {c \in DmConfigs : \A k \in DmKeys \ {"ban"} :
                                     c.dmNotifications[k] = "undefined"},
        l \in {c \in LogConfigs : c.channels["warns"] = NULL}}

HierarchyError == "cannot moderate"

\* a check that lets a moderator act on a target of the same position
CheckHierarchyAllowingEqual(moderator, target) ==
    IF target > moderator THEN HierarchyError ELSE NULL

\* checkHierarchy(moderator, target), on the two roles.highest.position
CheckHierarchy(moderator, target) ==
    IF target >= moderator THEN HierarchyError ELSE NULL

\* a lookup that gives tempban and softban toggles of their own
DmKeyOfItsOwn(action) == action

\* shouldSendDm: tempban and softban read the 'ban' toggle
DmKey(action) ==
    IF action \in {"tempban", "softban"} THEN "ban" ELSE action

\* shouldSendDm(config, action)
ShouldSendDm(config, action) ==
    /\ config.hasDmNotifications
    /\ DmKey(action) \in DmKeys
    /\ config.dmNotifications[DmKey(action)] = "true"

DmOutcomes == {"delivered", "rejected"}

\* a sendDmNotification without its catch
DmRaisesOnReject(outcome) ==
    IF outcome = "rejected" THEN "raised" ELSE "resolved"

\* sendDmNotification(member, action, reason, guildName): member.send
\* resolves or rejects, and the call resolves either way
SendDmNotification(outcome) == "resolved"

\* the key of logging.channels an action is logged under
LogKey(action) ==
    IF action = "ban" THEN "bans" ELSE "warns"

\* a resolution that prefers the default channel
ResolveDefaultFirst(config, action) ==
    IF ~config.hasLogging THEN NULL
    ELSE IF config.channels["default"] # NULL THEN config.channels["default"]
    ELSE config.channels[LogKey(action)]

\* sendModLogEmbed: channels[key] || channels.default, null without either
\* and without a logging section
ResolveChannel(config, action) ==
    IF ~config.hasLogging THEN NULL
    ELSE IF config.channels[LogKey(action)] # NULL
         THEN config.channels[LogKey(action)]
    ELSE config.channels["default"]

SentMessage == "msg1"

\* a sendModLogEmbed without its catch
RaiseOnDeliveryFailure == "raised"

\* sendModLogEmbed: a failed channel fetch or send is caught and null is
\* returned
OnDeliveryFailure == "returned"

(* ------------------------- calls of the helpers ------------------------ *)
BoolText(b) == IF b THEN "true" ELSE "false"

\* the arguments of a call that is not a checkHierarchy call
NoPositions == <<0, 0>>

\* checkHierarchy(moderator, target) is called and returns
CallCheckHierarchy(moderator, target) ==
    /\ hfn' = "checkHierarchy"
    /\ hpos' = <<moderator, target>>
    /\ hout' = CheckHierarchy(moderator, target)
    /\ hcfg' = EmptyConfig
    /\ haction' = NULL
    /\ hsend' = NULL
    /\ UNCHANGED <<logVars, banVars, slowVars, durVars>>
    /\ UNCHANGED <<caseVars, schedVars, escVars, utilVars>>

\* shouldSendDm(config, action) is called and returns
CallShouldSendDm(config, action) ==
    /\ hfn' = "shouldSendDm"
    /\ hcfg' = config
    /\ haction' = action
    /\ hout' = BoolText(ShouldSendDm(config, action))
    /\ hpos' = NoPositions
    /\ hsend' = NULL
    /\ UNCHANGED <<logVars, banVars, slowVars, durVars>>
    /\ UNCHANGED <<caseVars, schedVars, escVars, utilVars>>

\* sendDmNotification(member, action, reason, guildName) is called and
\* settles after member.send has resolved or rejected
CallSendDmNotification(action, outcome) ==
    /\ hfn' = "sendDmNotification"
    /\ haction' = action
    /\ hsend' = outcome
    /\ hout' = SendDmNotification(outcome)
    /\ hpos' = NoPositions
    /\ hcfg' = EmptyConfig
    /\ UNCHANGED <<logVars, banVars, slowVars, durVars>>
    /\ UNCHANGED <<caseVars, schedVars, escVars, utilVars>>

(* --------------------------- sendModLogEmbed --------------------------- *)
\* sendModLogEmbed(client, config, caseData) up to its first await: the
\* channel is resolved, and with no channel the call returns null at once
StartModLog(config, action) ==
    /\ lcfg' = config
    /\ laction' = action
    /\ lchan' = ResolveChannel(config, action)
    /\ lfetches' = <<>>
    /\ lresult' = NULL
    /\ lpc' = IF ResolveChannel(config, action) = NULL THEN "returned" ELSE "fetch"

\* sendModLogEmbed called on its own
SendModLogEmbed(config, action) ==
    /\ lpc \in {"idle", "returned", "raised"}
    /\ bpc = "idle"
    /\ StartModLog(config, action)
    /\ UNCHANGED <<helperVars, banVars, slowVars, durVars>>
    /\ UNCHANGED <<caseVars, schedVars, escVars, utilVars>>

\* client.channels.fetch(channelId) resolves
LogFetch ==
    /\ lpc = "fetch"
    /\ lfetches' = Append(lfetches, lchan)
    /\ lpc' = "send"
    /\ UNCHANGED <<lcfg, laction, lchan, lresult>>
    /\ UNCHANGED <<helperVars, banVars, slowVars, durVars>>
    /\ UNCHANGED <<caseVars, schedVars, escVars, utilVars>>

\* client.channels.fetch(channelId) rejects
LogFetchFails ==
    /\ lpc = "fetch"
    /\ lfetches' = Append(lfetches, lchan)
    /\ lpc' = OnDeliveryFailure
    /\ UNCHANGED <<lcfg, laction, lchan, lresult>>
    /\ UNCHANGED <<helperVars, banVars, slowVars, durVars>>
    /\ UNCHANGED <<caseVars, schedVars, escVars, utilVars>>

\* channel.send({ embeds }) resolves with the message, which is returned
LogSend ==
    /\ lpc = "send"
    /\ lresult' = SentMessage
    /\ lpc' = "returned"
    /\ UNCHANGED <<lcfg, laction, lchan, lfetches>>
    /\ UNCHANGED <<helperVars, banVars, slowVars, durVars>>
    /\ UNCHANGED <<caseVars, schedVars, escVars, utilVars>>

\* channel.send({ embeds }) rejects
LogSendFails ==
    /\ lpc = "send"
    /\ lpc' = OnDeliveryFailure
    /\ UNCHANGED <<lcfg, laction, lchan, lfetches, lresult>>
    /\ UNCHANGED <<helperVars, banVars, slowVars, durVars>>
    /\ UNCHANGED <<caseVars, schedVars, escVars, utilVars>>

(* -------------------------------- /ban --------------------------------- *)
BanGuild == "guild1"

BanTarget == 1

BanModerator == "mod1"

\* the interaction and the config of one /ban: the highest role positions
\* of the moderator, the target and the bot, whether guild.members.me is
\* there, and what getConfig() returns
Interaction(moderator, target, botPresent, bot, config) ==
    [moderator |-> moderator, target |-> target, botPresent |-> botPresent,
     bot |-> bot, config |-> config]

Interactions ==
    {Interaction(m, t, TRUE, b, c) :
        m \in Positions, t \in Positions, b \in Positions, c \in BanConfigs}
    \cup {Interaction(m, t, FALSE, 1, c) :
        m \in Positions, t \in Positions, c \in BanConfigs}

NoInteraction == Interaction(1, 1, FALSE, 1, EmptyConfig)

BotRoleError == "my role is not high enough"

Banned == "has been banned"

NoPermission == "I do not have permission to ban that user"

FailedToExecute == "Failed to execute"

\* err.message of a rejected Discord call
ErrorMessages == {"Missing Permissions", "Missing Access", "Unknown User"}

\* the catch of execute: the reply for an error message
CatchContent(message) ==
    IF message \in {"Missing Permissions", "Missing Access"}
    THEN NoPermission
    ELSE FailedToExecute

\* a command that bans although the hierarchy check has rejected
BanDespiteRejection == "ban"

\* if (hierarchyError) return await interaction.editReply(hierarchyError),
\* and the same for the role of the bot
OnRejection == "reply"

\* a command that never notifies the target
NeverDm(sendDm) == "ban"

\* if (shouldSendDm(config, 'ban')) await sendDmNotification(...) comes
\* before guild.members.ban
BeforeBan(sendDm) == IF sendDm THEN "dm" ELSE "ban"

\* a command that goes on to the mod log and the confirmation although
\* createCase has thrown
IgnoreCreateCaseError == "log"

\* an error thrown by createCase lands in the catch of execute
OnCreateCaseError == "fail reply"

\* /ban is invoked: execute starts with interaction.deferReply
BanExecute(interaction) ==
    /\ bpc = "idle"
    /\ bin' = interaction
    /\ bpc' = "defer"
    /\ UNCHANGED <<bmember, bcalls, bcontent, breply, bnum, bcase>>
    /\ UNCHANGED <<helperVars, logVars, slowVars, durVars>>
    /\ UNCHANGED <<caseVars, schedVars, escVars, utilVars>>

\* deferReply resolves and guild.members.fetch(user.id) is awaited
BanDeferred ==
    /\ bpc = "defer"
    /\ bpc' = "fetch"
    /\ UNCHANGED <<bin, bmember, bcalls, bcontent, breply, bnum, bcase>>
    /\ UNCHANGED <<helperVars, logVars, slowVars, durVars>>
    /\ UNCHANGED <<caseVars, schedVars, escVars, utilVars>>

\* deferReply rejects: it stands before the try, so execute rejects
BanDeferFails ==
    /\ bpc = "defer"
    /\ bpc' = "raised"
    /\ UNCHANGED <<bin, bmember, bcalls, bcontent, breply, bnum, bcase>>
    /\ UNCHANGED <<helperVars, logVars, slowVars, durVars>>
    /\ UNCHANGED <<caseVars, schedVars, escVars, utilVars>>

\* the target is a member: checkHierarchy, then the role of the bot, then
\* shouldSendDm, all before the next await
BanMemberFetched ==
    /\ bpc = "fetch"
    /\ bmember' = "member"
    /\ IF CheckHierarchy(bin.moderator, bin.target) # NULL
       THEN /\ bpc' = OnRejection
            /\ bcontent' = CheckHierarchy(bin.moderator, bin.target)
       ELSE IF bin.botPresent /\ bin.target >= bin.bot
       THEN /\ bpc' = OnRejection
            /\ bcontent' = BotRoleError
       ELSE /\ bpc' = BeforeBan(ShouldSendDm(bin.config, "ban"))
            /\ bcontent' = bcontent
    /\ UNCHANGED <<bin, bcalls, breply, bnum, bcase>>
    /\ UNCHANGED <<helperVars, logVars, slowVars, durVars>>
    /\ UNCHANGED <<caseVars, schedVars, escVars, utilVars>>

\* the member fetch rejects: the user is not in the guild, member stays null
\* and the checks and the DM are skipped
BanMemberNotFetched ==
    /\ bpc = "fetch"
    /\ bmember' = "none"
    /\ bpc' = "ban"
    /\ UNCHANGED <<bin, bcalls, bcontent, breply, bnum, bcase>>
    /\ UNCHANGED <<helperVars, logVars, slowVars, durVars>>
    /\ UNCHANGED <<caseVars, schedVars, escVars, utilVars>>

\* sendDmNotification(member, 'ban', reason, guild.name) settles
BanDm(outcome) ==
    /\ bpc = "dm"
    /\ bcalls' = Append(bcalls, "dm " \o outcome)
    /\ IF SendDmNotification(outcome) = "resolved"
       THEN bpc' = "ban" /\ bcontent' = bcontent
       ELSE bpc' = "fail reply" /\ bcontent' = FailedToExecute
    /\ UNCHANGED <<bin, bmember, breply, bnum, bcase>>
    /\ UNCHANGED <<helperVars, logVars, slowVars, durVars>>
    /\ UNCHANGED <<caseVars, schedVars, escVars, utilVars>>

\* guild.members.ban(user.id, ...) resolves
BanApply ==
    /\ bpc = "ban"
    /\ bcalls' = Append(bcalls, "ban")
    /\ bpc' = "nextnum"
    /\ UNCHANGED <<bin, bmember, bcontent, breply, bnum, bcase>>
    /\ UNCHANGED <<helperVars, logVars, slowVars, durVars>>
    /\ UNCHANGED <<caseVars, schedVars, escVars, utilVars>>

\* a rejected ban that is passed over: the case is created all the same
CaseDespiteBanError == "nextnum"

\* the rejection of guild.members.ban leaves the try block for the catch
OnBanError == "fail reply"

\* guild.members.ban rejects: the catch picks the reply from err.message
BanApplyFails(message) ==
    /\ bpc = "ban"
    /\ bcalls' = Append(bcalls, "ban rejected")
    /\ bcontent' = CatchContent(message)
    /\ bpc' = OnBanError
    /\ UNCHANGED <<bin, bmember, breply, bnum, bcase>>
    /\ UNCHANGED <<helperVars, logVars, slowVars, durVars>>
    /\ UNCHANGED <<caseVars, schedVars, escVars, utilVars>>

\* createCase(guild.id, { action: 'ban', ... }), first statement
BanNextNum ==
    /\ bpc = "nextnum"
    /\ bnum' = GetNextCaseNumber(BanGuild)
    /\ bpc' = "insert"
    /\ UNCHANGED <<bin, bmember, bcalls, bcontent, breply, bcase>>
    /\ UNCHANGED <<helperVars, logVars, slowVars, durVars>>
    /\ UNCHANGED <<caseVars, schedVars, escVars, utilVars>>

\* createCase, second statement: the INSERT returns the row
BanInsert ==
    /\ bpc = "insert"
    /\ IF UniqueViolation(BanGuild, bnum)
       THEN /\ bpc' = OnCreateCaseError
            /\ bcontent' = FailedToExecute
            /\ UNCHANGED <<cases, nextCaseId, issued, bcase>>
       ELSE /\ cases' = cases \cup
                   {NewCase(nextCaseId, BanGuild, bnum, "ban", BanTarget, BanModerator, 0)}
            /\ nextCaseId' = nextCaseId + 1
            /\ issued' = [issued EXCEPT ![BanGuild] = @ \cup {bnum}]
            /\ bcase' = nextCaseId
            /\ bpc' = "log"
            /\ bcontent' = bcontent
    /\ UNCHANGED <<bin, bmember, bcalls, breply, bnum>>
    /\ UNCHANGED <<cpc, cguild, cnum, cerr, creates, deleted, failures>>
    /\ UNCHANGED <<helperVars, logVars, slowVars, durVars>>
    /\ UNCHANGED <<schedVars, escVars, utilVars>>

\* a store statement of createCase (SELECT MAX or INSERT) throws
BanStoreError ==
    /\ bpc \in {"nextnum", "insert"}
    /\ CanFail
    /\ failures' = failures + 1
    /\ bpc' = OnCreateCaseError
    /\ bcontent' = FailedToExecute
    /\ UNCHANGED <<bin, bmember, bcalls, breply, bnum, bcase>>
    /\ UNCHANGED <<cases, nextCaseId, cpc, cguild, cnum, cerr, creates, deleted,
                   issued>>
    /\ UNCHANGED <<helperVars, logVars, slowVars, durVars>>
    /\ UNCHANGED <<schedVars, escVars, utilVars>>

\* sendModLogEmbed(interaction.client, config, caseData) is called
BanLog ==
    /\ bpc = "log"
    /\ StartModLog(bin.config, "ban")
    /\ bcalls' = Append(bcalls, "sendModLogEmbed")
    /\ bpc' = "logging"
    /\ UNCHANGED <<bin, bmember, bcontent, breply, bnum, bcase>>
    /\ UNCHANGED <<helperVars, slowVars, durVars>>
    /\ UNCHANGED <<caseVars, schedVars, escVars, utilVars>>

\* sendModLogEmbed has settled: the confirmation with the case number is
\* next, or the catch if it threw
BanLogged ==
    /\ bpc = "logging"
    /\ lpc \in {"returned", "raised"}
    /\ IF lpc = "returned"
       THEN bpc' = "reply" /\ bcontent' = Banned
       ELSE bpc' = "fail reply" /\ bcontent' = FailedToExecute
    /\ UNCHANGED <<bin, bmember, bcalls, breply, bnum, bcase>>
    /\ UNCHANGED <<helperVars, logVars, slowVars, durVars>>
    /\ UNCHANGED <<caseVars, schedVars, escVars, utilVars>>

\* interaction.editReply(content) resolves: the moderator has the reply
BanReplySent ==
    /\ bpc \in {"reply", "fail reply"}
    /\ breply' = bcontent
    /\ bpc' = "done"
    /\ UNCHANGED <<bin, bmember, bcalls, bcontent, bnum, bcase>>
    /\ UNCHANGED <<helperVars, logVars, slowVars, durVars>>
    /\ UNCHANGED <<caseVars, schedVars, escVars, utilVars>>

\* interaction.editReply(content) rejects: inside the try the error goes to
\* the catch, which replies with the failure; inside the catch it is dropped
BanReplyFails ==
    /\ bpc \in {"reply", "fail reply"}
    /\ IF bpc = "reply"
       THEN bpc' = "fail reply" /\ bcontent' = FailedToExecute
       ELSE bpc' = "done" /\ bcontent' = bcontent
    /\ UNCHANGED <<bin, bmember, bcalls, breply, bnum, bcase>>
    /\ UNCHANGED <<helperVars, logVars, slowVars, durVars>>
    /\ UNCHANGED <<caseVars, schedVars, escVars, utilVars>>

(* --------------------------- duration codec ---------------------------- *)
Units == <<"w", "d", "h", "m", "s">>

UnitSet == {Units[i] : i \in 1..Len(Units)}

UnitSeconds(u) ==
    CASE u = "s" -> 1
      [] u = "m" -> 60
      [] u = "h" -> 60 * 60
      [] u = "d" -> 24 * 60 * 60
      [] u = "w" -> 7 * 24 * 60 * 60

UnitMs(u) == UnitSeconds(u) * 1000

\* what parseDuration returns for a text it does not accept (null)
Unparseable == 0 - 1

\* a text is a sequence of tokens, a token an integer followed by a suffix:
\* "90m" is <<[n |-> 90, u |-> "m"]>>, "1h 30m" has two tokens, "0" is a
\* number with the empty suffix and "" has no token at all
Token(n, u) == [n |-> n, u |-> u]

Text(n, u) == <<Token(n, u)>>

\* the suffix in lower case (the grammar is case-insensitive)
Lower(u) ==
    CASE u = "H" -> "h"
      [] u = "M" -> "m"
      [] OTHER -> u

\* parseDuration(str): one integer magnitude and one unit of s, m, h, d, w
ParseDuration(text) ==
    IF /\ Len(text) = 1
       /\ text[1].n >= 0
       /\ Lower(text[1].u) \in UnitSet
    THEN text[1].n * UnitMs(Lower(text[1].u))
    ELSE Unparseable

\* the tokens of ms from unit i on, largest unit first, zero parts left out
RECURSIVE Parts(_, _)
Parts(ms, i) ==
    IF i > Len(Units) THEN <<>>
    ELSE LET q == ms \div UnitMs(Units[i])
             r == ms % UnitMs(Units[i])
         IN  IF q = 0 THEN Parts(r, i + 1)
             ELSE <<Token(q, Units[i])>> \o Parts(r, i + 1)

\* formatDuration(ms): the largest applicable unit combination, "0s" for 0
FormatDuration(ms) ==
    IF ms = 0 THEN Text(0, "s") ELSE Parts(ms, 1)

\* the duration option of /slowmode given as the bare number 0
ZeroText == Text(0, "")

Magnitudes == {0, 1, 5, 7, 24, 90}

\* the texts given to parseDuration and to /slowmode: every magnitude with
\* every unit (durations of at most MaxDays days, so that the milliseconds
\* stay inside the integers TLC computes with), upper-case units, a bare
\* number, an unknown unit, a negative magnitude, two tokens, and the empty
\* string
DurationTexts ==
    {Text(n, u) : n \in Magnitudes, u \in {"H", "M", "", "x"}}
        \cup {t \in {Text(n, u) : n \in Magnitudes, u \in UnitSet} :
                  t[1].n * UnitSeconds(t[1].u) <= MaxDays * 86400}
        \cup {Text(0 - 5, "m"), <<Token(1, "h"), Token(30, "m")>>, <<>>}

\* Discord's upper limit of a channel's rate limit, in seconds
MaxRateLimit == 21600

\* Math.min(Math.floor(ms / 1000), 21600)
Seconds(ms) ==
    IF ms \div 1000 < MaxRateLimit THEN ms \div 1000 ELSE MaxRateLimit

NoRate == 0 - 1

(* ------------------------------ /slowmode ------------------------------ *)
InvalidDuration == "Invalid duration format"

SlowmodeDisabled == "Slowmode disabled"

SlowmodeSet == "Slowmode set"

SlowmodeFailed == "Failed to set slowmode"

\* if (!ms): null and 0 are both falsy
Not(ms) == ms = Unparseable \/ ms = 0

\* /slowmode is invoked: execute starts with interaction.deferReply
SlowmodeExecute(text) ==
    /\ spc = "idle"
    /\ stext' = text
    /\ spc' = "defer"
    /\ UNCHANGED <<sseconds, srate, ssets, scontent, sreply>>
    /\ UNCHANGED <<helperVars, logVars, banVars, durVars>>
    /\ UNCHANGED <<caseVars, schedVars, escVars, utilVars>>

\* deferReply resolves: the option is parsed and the seconds are computed,
\* or the reply for an invalid duration is sent
SlowmodeDeferred ==
    /\ spc = "defer"
    /\ IF stext # ZeroText /\ Not(ParseDuration(stext))
       THEN /\ spc' = "reply"
            /\ scontent' = InvalidDuration
            /\ sseconds' = sseconds
       ELSE /\ spc' = "set"
            /\ scontent' = scontent
            /\ sseconds' = IF stext = ZeroText THEN 0
                           ELSE Seconds(ParseDuration(stext))
    /\ UNCHANGED <<stext, srate, ssets, sreply>>
    /\ UNCHANGED <<helperVars, logVars, banVars, durVars>>
    /\ UNCHANGED <<caseVars, schedVars, escVars, utilVars>>

\* deferReply rejects: it stands before the try, so execute rejects
SlowmodeDeferFails ==
    /\ spc = "defer"
    /\ spc' = "raised"
    /\ UNCHANGED <<stext, sseconds, srate, ssets, scontent, sreply>>
    /\ UNCHANGED <<helperVars, logVars, banVars, durVars>>
    /\ UNCHANGED <<caseVars, schedVars, escVars, utilVars>>

\* channel.setRateLimitPerUser(seconds) resolves
SlowmodeSetRate ==
    /\ spc = "set"
    /\ srate' = sseconds
    /\ ssets' = ssets + 1
    /\ scontent' = IF sseconds = 0 THEN SlowmodeDisabled ELSE SlowmodeSet
    /\ spc' = "reply"
    /\ UNCHANGED <<stext, sseconds, sreply>>
    /\ UNCHANGED <<helperVars, logVars, banVars, durVars>>
    /\ UNCHANGED <<caseVars, schedVars, escVars, utilVars>>

\* channel.setRateLimitPerUser(seconds) rejects
SlowmodeSetRateFails ==
    /\ spc = "set"
    /\ ssets' = ssets + 1
    /\ scontent' = SlowmodeFailed
    /\ spc' = "fail reply"
    /\ UNCHANGED <<stext, sseconds, srate, sreply>>
    /\ UNCHANGED <<helperVars, logVars, banVars, durVars>>
    /\ UNCHANGED <<caseVars, schedVars, escVars, utilVars>>

\* interaction.editReply(content) resolves
SlowmodeReplySent ==
    /\ spc \in {"reply", "fail reply"}
    /\ sreply' = scontent
    /\ spc' = "done"
    /\ UNCHANGED <<stext, sseconds, srate, ssets, scontent>>
    /\ UNCHANGED <<helperVars, logVars, banVars, durVars>>
    /\ UNCHANGED <<caseVars, schedVars, escVars, utilVars>>

\* interaction.editReply(content) rejects: inside the try the catch replies
\* with the failure; inside the catch execute rejects
SlowmodeReplyFails ==
    /\ spc \in {"reply", "fail reply"}
    /\ IF spc = "reply"
       THEN spc' = "fail reply" /\ scontent' = SlowmodeFailed
       ELSE spc' = "raised" /\ scontent' = scontent
    /\ UNCHANGED <<stext, sseconds, srate, ssets, sreply>>
    /\ UNCHANGED <<helperVars, logVars, banVars, durVars>>
    /\ UNCHANGED <<caseVars, schedVars, escVars, utilVars>>

(* ----------------------- calls of the duration codec ------------------- *)
NotRun == 0 - 2

NoText == <<>>

\* parseDuration(text) is called and returns
CallParseDuration(text) ==
    /\ dms = NotRun
    /\ dtext' = text
    /\ dms' = ParseDuration(text)
    /\ UNCHANGED <<dfmt, dback>>
    /\ UNCHANGED <<helperVars, logVars, banVars, slowVars>>
    /\ UNCHANGED <<caseVars, schedVars, escVars, utilVars>>

\* formatDuration is called with the milliseconds parseDuration returned
CallFormatDuration ==
    /\ dms \notin {NotRun, Unparseable}
    /\ dfmt = NoText
    /\ dfmt' = FormatDuration(dms)
    /\ UNCHANGED <<dtext, dms, dback>>
    /\ UNCHANGED <<helperVars, logVars, banVars, slowVars>>
    /\ UNCHANGED <<caseVars, schedVars, escVars, utilVars>>

\* parseDuration is called with the text formatDuration returned
CallParseFormatted ==
    /\ dfmt # NoText
    /\ dback = NotRun
    /\ dback' = ParseDuration(dfmt)
    /\ UNCHANGED <<dtext, dms, dfmt>>
    /\ UNCHANGED <<helperVars, logVars, banVars, slowVars>>
    /\ UNCHANGED <<caseVars, schedVars, escVars, utilVars>>

(* ------------------------------ withRetry ------------------------------ *)
\* maxRetries when the option is not given
DefaultMaxRetries == 3

\* the largest maxRetries option passed
MaxRetriesOption == 2

\* the maxRetries option: not given, or a number
NoOption == 0 - 1

RetryOptions == {NoOption} \cup (0..MaxRetriesOption)

\* the shouldRetry option: not given, or a predicate answering always the same
ShouldRetryOptions == {NULL, "always", "never"}

\* the errors fn throws: a timeout, a refused connection, a bad config, a 401
RetryErrors == {"timeout", "ECONNREFUSED", "Invalid config", "Unauthorized"}

\* the default shouldRetry
IsRetryable(err) == err \in {"timeout", "ECONNREFUSED"}

ShouldRetry(option, err) ==
    IF option = NULL THEN IsRetryable(err) ELSE option = "always"

\* a limit that allows one attempt more
ExhaustedAfterOneMore(calls, max) == calls > max + 1

\* the retries are used up: fn has run maxRetries + 1 times
Exhausted(calls, max) == calls >= max + 1

\* the error is rethrown instead of retried
Rethrows(option, err, calls, max) ==
    Exhausted(calls, max) \/ ~ShouldRetry(option, err)

\* withRetry(fn, { maxRetries, shouldRetry }) is called and invokes fn
WithRetry(maxRetries, shouldRetry) ==
    /\ rpc \in {"idle", "returned", "raised"}
    /\ rmax' = IF maxRetries = NoOption THEN DefaultMaxRetries ELSE maxRetries
    /\ rshould' = shouldRetry
    /\ rcalls' = 1
    /\ rerrors' = <<>>
    /\ rthrown' = 0
    /\ rpc' = "call"
    /\ UNCHANGED <<configVars, rateVars>>
    /\ UNCHANGED <<caseVars, schedVars, escVars, cmdVars>>

\* fn resolves: withRetry returns its result
RetryFnResolves ==
    /\ rpc = "call"
    /\ rpc' = "returned"
    /\ UNCHANGED <<rmax, rshould, rcalls, rerrors, rthrown>>
    /\ UNCHANGED <<configVars, rateVars>>
    /\ UNCHANGED <<caseVars, schedVars, escVars, cmdVars>>

\* fn throws err: withRetry rethrows it, or sleeps before the next attempt
RetryFnThrows(err) ==
    /\ rpc = "call"
    /\ rerrors' = Append(rerrors, err)
    /\ IF Rethrows(rshould, err, rcalls, rmax)
       THEN /\ rthrown' = Len(rerrors) + 1
            /\ rpc' = "raised"
       ELSE /\ rthrown' = rthrown
            /\ rpc' = "sleep"
    /\ UNCHANGED <<rmax, rshould, rcalls>>
    /\ UNCHANGED <<configVars, rateVars>>
    /\ UNCHANGED <<caseVars, schedVars, escVars, cmdVars>>

\* the backoff delay has passed: fn is invoked again
RetrySleepDone ==
    /\ rpc = "sleep"
    /\ rcalls' = rcalls + 1
    /\ rpc' = "call"
    /\ UNCHANGED <<rmax, rshould, rerrors, rthrown>>
    /\ UNCHANGED <<configVars, rateVars>>
    /\ UNCHANGED <<caseVars, schedVars, escVars, cmdVars>>

(* --------------------------- setConfigValue ---------------------------- *)
\* the setConfigValue calls in flight at once
NumSetCalls == 2

SetCalls == 1..NumSetCalls

\* the section of the paths, and the keys under it
ConfigSections == {"ai"}

ConfigKeys == {"model", "maxTokens"}

\* the value every key holds at the start, and the values the calls set
SeedValue == "v0"

NewValues == {"v1", "v2"}

\* the config loaded at startup, in the cache as in the table
SeedConfig == [sec \in ConfigSections |-> [k \in ConfigKeys |-> SeedValue]]

NoArg == <<NULL, NULL, NULL>>

\* structuredClone(configCache[section]) with the value set at the key
SetOnClone(cache, section, key, value) == [cache[section] EXCEPT ![key] = value]

\* the value is set on the cached section itself
MutateCacheInPlace(cache, section, clone) == [cache EXCEPT ![section] = clone]

\* the cache while the write is awaited: only the copy was modified
CacheDuringWrite(cache, section, clone) == cache

\* setConfigValue(path, value) runs up to the await of pool.query
SetConfigValue(c, section, key, value) ==
    /\ setpc[c] = "idle"
    /\ setarg' = [setarg EXCEPT ![c] = <<section, key, value>>]
    /\ cacheBefore' = [cacheBefore EXCEPT ![c] = configCache]
    /\ LET clone == SetOnClone(configCache, section, key, value)
       IN  /\ newSectionConfig' = [newSectionConfig EXCEPT ![c] = clone]
           /\ configCache' = CacheDuringWrite(configCache, section, clone)
    /\ setpc' = [setpc EXCEPT ![c] = "write"]
    /\ UNCHANGED configTable
    /\ UNCHANGED <<retryVars, rateVars>>
    /\ UNCHANGED <<caseVars, schedVars, escVars, cmdVars>>

\* setConfigValue(path, value) with a path of one part throws at once
SetConfigBadPath(c, section) ==
    /\ setpc[c] = "idle"
    /\ setarg' = [setarg EXCEPT ![c] = <<section, NULL, NULL>>]
    /\ cacheBefore' = [cacheBefore EXCEPT ![c] = configCache]
    /\ setpc' = [setpc EXCEPT ![c] = "rejected"]
    /\ UNCHANGED <<configCache, configTable, newSectionConfig>>
    /\ UNCHANGED <<retryVars, rateVars>>
    /\ UNCHANGED <<caseVars, schedVars, escVars, cmdVars>>

\* the INSERT ... ON CONFLICT DO UPDATE of the call is executed by the database
SetConfigWrite(c) ==
    /\ setpc[c] = "write"
    /\ configTable' = [configTable EXCEPT ![setarg[c][1]] = newSectionConfig[c]]
    /\ setpc' = [setpc EXCEPT ![c] = "written"]
    /\ UNCHANGED <<configCache, setarg, newSectionConfig, cacheBefore>>
    /\ UNCHANGED <<retryVars, rateVars>>
    /\ UNCHANGED <<caseVars, schedVars, escVars, cmdVars>>

\* pool.query rejects: the call rejects
SetConfigWriteFails(c) ==
    /\ setpc[c] = "write"
    /\ setpc' = [setpc EXCEPT ![c] = "rejected"]
    /\ UNCHANGED <<configCache, configTable, setarg, newSectionConfig, cacheBefore>>
    /\ UNCHANGED <<retryVars, rateVars>>
    /\ UNCHANGED <<caseVars, schedVars, escVars, cmdVars>>

\* the await resumes: configCache[section] = newSectionConfig, the call resolves
SetConfigResume(c) ==
    /\ setpc[c] = "written"
    /\ configCache' = [configCache EXCEPT ![setarg[c][1]] = newSectionConfig[c]]
    /\ setpc' = [setpc EXCEPT ![c] = "resolved"]
    /\ UNCHANGED <<configTable, setarg, newSectionConfig, cacheBefore>>
    /\ UNCHANGED <<retryVars, rateVars>>
    /\ UNCHANGED <<caseVars, schedVars, escVars, cmdVars>>

(* ---------------------------- checkRateLimit --------------------------- *)
\* the last minute Date.now() reaches
MaxClock == 2

Minutes == 0..MaxClock

UserIds == {"user1", "user2"}

RateChannelIds == {"chan1", "chan2"}

\* rateLimit.perUser, rateLimit.perChannel
Limit(requests, window) == [requestsPerMinute |-> requests, windowMinutes |-> window]

\* the requestsPerMinute and the windowMinutes configured
RequestLimits == {1, 2}

WindowLengths == {1, 2}

Limits == {Limit(r, w) : r \in RequestLimits, w \in WindowLengths}

\* config.rateLimit: disabled, or enabled with a limit per user and per channel
RateConfigs ==
    {[enabled |-> FALSE, perUser |-> Limit(1, 1), perChannel |-> Limit(1, 1)]}
        \cup [enabled : {TRUE}, perUser : Limits, perChannel : Limits]

\* timestamps.filter(ts => now - ts < windowMs)
Recent(timestamps, t, window) == SelectSeq(timestamps, LAMBDA ts : t - ts < window)

\* Math.min(...recentRequests)
Oldest(timestamps) ==
    CHOOSE m \in {timestamps[i] : i \in 1..Len(timestamps)} :
        \A i \in 1..Len(timestamps) : m <= timestamps[i]

\* Math.ceil((oldestRequest + windowMs - now) / 1000), in seconds
RetryAfter(recent, t, window) == (Oldest(recent) + window - t) * 60

\* a limit that lets one request more through
LimitExceeded(recent, limit) == Len(recent) > limit.requestsPerMinute

\* recentRequests.length >= limit.requestsPerMinute
LimitReached(recent, limit) == Len(recent) >= limit.requestsPerMinute

\* a denied request is recorded all the same
PushedOnDeny(timestamps, t) == Append(timestamps, t)

\* the stored list of a denied request: the return comes before the push
StoredOnDeny(timestamps, t) == timestamps

\* what checkRateLimit returned
Answer(allowed, retryAfter, type) ==
    [allowed |-> allowed, retryAfter |-> retryAfter, type |-> type]

NoAnswer == Answer(NULL, 0, NULL)

\* one more request answered allowed in this minute
Counted(f, k) == [f EXCEPT ![k][clock] = @ + 1]

\* checkRateLimit(userId, channelId, config)
CheckRateLimit(u, c) ==
    LET userLimit == rateConfig.perUser
        channelLimit == rateConfig.perChannel
        userTimestamps == userRateLimits[u]
        channelTimestamps == channelRateLimits[c]
        userRecent == Recent(userTimestamps, clock, userLimit.windowMinutes)
        channelRecent == Recent(channelTimestamps, clock, channelLimit.windowMinutes)
    IN  /\ IF ~rateConfig.enabled
           THEN /\ lastCheck' = Answer("true", 0, NULL)
                /\ UNCHANGED <<userRateLimits, channelRateLimits, userAllowed,
                               channelAllowed>>
           ELSE IF LimitReached(userRecent, userLimit)
           THEN /\ lastCheck' = Answer("false",
                        RetryAfter(userRecent, clock, userLimit.windowMinutes), "user")
                /\ userRateLimits' =
                       [userRateLimits EXCEPT ![u] = StoredOnDeny(userTimestamps, clock)]
                /\ UNCHANGED <<channelRateLimits, userAllowed, channelAllowed>>
           ELSE IF LimitReached(channelRecent, channelLimit)
           THEN /\ lastCheck' = Answer("false",
                        RetryAfter(channelRecent, clock, channelLimit.windowMinutes),
                        "channel")
                /\ userRateLimits' =
                       [userRateLimits EXCEPT ![u] = StoredOnDeny(userTimestamps, clock)]
                /\ channelRateLimits' =
                       [channelRateLimits EXCEPT
                            ![c] = StoredOnDeny(channelTimestamps, clock)]
                /\ UNCHANGED <<userAllowed, channelAllowed>>
           ELSE /\ lastCheck' = Answer("true", 0, NULL)
                /\ userRateLimits' =
                       [userRateLimits EXCEPT
                            ![u] = Recent(Append(userTimestamps, clock), clock,
                                          userLimit.windowMinutes)]
                /\ channelRateLimits' =
                       [channelRateLimits EXCEPT
                            ![c] = Recent(Append(channelTimestamps, clock), clock,
                                          channelLimit.windowMinutes)]
                /\ userAllowed' = Counted(userAllowed, u)
                /\ channelAllowed' = Counted(channelAllowed, c)
        /\ UNCHANGED <<clock, rateConfig>>
        /\ UNCHANGED <<retryVars, configVars>>
        /\ UNCHANGED <<caseVars, schedVars, escVars, cmdVars>>

\* Math.max(userWindowMs, channelWindowMs)
MaxWindowOf(config) ==
    IF config.perUser.windowMinutes >= config.perChannel.windowMinutes
    THEN config.perUser.windowMinutes
    ELSE config.perChannel.windowMinutes

\* cleanupOldEntries(config), run by the cleanup interval
CleanupOldEntries ==
    /\ rateConfig.enabled
    /\ userRateLimits' =
           [u \in UserIds |-> Recent(userRateLimits[u], clock, MaxWindowOf(rateConfig))]
    /\ channelRateLimits' =
           [c \in RateChannelIds |->
                Recent(channelRateLimits[c], clock, MaxWindowOf(rateConfig))]
    /\ UNCHANGED <<clock, rateConfig, userAllowed, channelAllowed, lastCheck>>
    /\ UNCHANGED <<retryVars, configVars>>
    /\ UNCHANGED <<caseVars, schedVars, escVars, cmdVars>>

\* a minute passes
MinutePasses ==
    /\ clock < MaxClock
    /\ clock' = clock + 1
    /\ UNCHANGED <<rateConfig, userRateLimits, channelRateLimits, userAllowed,
                   channelAllowed, lastCheck>>
    /\ UNCHANGED <<retryVars, configVars>>
    /\ UNCHANGED <<caseVars, schedVars, escVars, cmdVars>>

(* --------------------------- specifications ---------------------------- *)
CallersIdle ==
    /\ cpc = [p \in Callers |-> "idle"]
    /\ cguild = [p \in Callers |-> "guild1"]
    /\ cnum = [p \in Callers |-> 0]
    /\ cerr = [p \in Callers |-> NULL]
    /\ creates = 0
    /\ deleted = {}
    /\ issued = [g \in Guilds |-> {}]
    /\ failures = 0

SchedulerStopped ==
    /\ executed = [r \in RowIds |-> FALSE]
    /\ banned = [r \in RowIds |-> TRUE]
    /\ now = 0
    /\ schedulerInterval = NoHandle
    /\ timers = {}
    /\ ppc = [p \in Polls |-> "idle"]
    /\ prows = [p \in Polls |-> <<>>]
    /\ pidx = [p \in Polls |-> 0]
    /\ pnum = [p \in Polls |-> 0]
    /\ pattempted = [p \in Polls |-> {}]
    /\ lastCall = "none"

\* checkEscalation has not been called
EscalationIdle ==
    /\ epc = "idle"
    /\ ecfg = [enabled |-> FALSE, hasThresholds |-> FALSE, thresholds |-> <<>>]
    /\ emod = NULL
    /\ eidx = 0
    /\ ecount = 0
    /\ enum = 0
    /\ eresult = 0
    /\ equeries = 0
    /\ efetched = FALSE
    /\ eapplied = <<>>
    /\ elog = NULL

\* no helper has been called and no command has been invoked
RetryIdle ==
    /\ rpc = "idle"
    /\ rmax = DefaultMaxRetries
    /\ rshould = NULL
    /\ rcalls = 0
    /\ rerrors = <<>>
    /\ rthrown = 0

\* loadConfig has filled the cache from the table
ConfigLoaded ==
    /\ configCache = SeedConfig
    /\ configTable = SeedConfig
    /\ setpc = [c \in SetCalls |-> "idle"]
    /\ setarg = [c \in SetCalls |-> NoArg]
    /\ newSectionConfig = [c \in SetCalls |-> SeedConfig["ai"]]
    /\ cacheBefore = [c \in SetCalls |-> SeedConfig]

\* no request has been checked yet
RateLimitsEmpty ==
    /\ clock = 0
    /\ userRateLimits = [u \in UserIds |-> <<>>]
    /\ channelRateLimits = [c \in RateChannelIds |-> <<>>]
    /\ userAllowed = [u \in UserIds |-> [t \in Minutes |-> 0]]
    /\ channelAllowed = [c \in RateChannelIds |-> [t \in Minutes |-> 0]]
    /\ lastCheck = NoAnswer

UtilitiesIdle ==
    /\ RetryIdle
    /\ ConfigLoaded
    /\ RateLimitsEmpty
    /\ rateConfig = [enabled |-> FALSE, perUser |-> Limit(1, 1),
                     perChannel |-> Limit(1, 1)]

CommandsIdle ==
    /\ hfn = NULL
    /\ hpos = NoPositions
    /\ hcfg = EmptyConfig
    /\ haction = NULL
    /\ hsend = NULL
    /\ hout = NULL
    /\ lpc = "idle"
    /\ lcfg = EmptyConfig
    /\ laction = NULL
    /\ lchan = NULL
    /\ lfetches = <<>>
    /\ lresult = NULL
    /\ bpc = "idle"
    /\ bin = NoInteraction
    /\ bmember = NULL
    /\ bcalls = <<>>
    /\ bcontent = NULL
    /\ breply = NULL
    /\ bnum = 0
    /\ bcase = 0
    /\ spc = "idle"
    /\ stext = NoText
    /\ sseconds = 0
    /\ srate = NoRate
    /\ ssets = 0
    /\ scontent = NULL
    /\ sreply = NULL
    /\ dtext = NoText
    /\ dms = NotRun
    /\ dfmt = NoText
    /\ dback = NotRun

\* a fresh store: no case, no scheduled action
CaseInit ==
    /\ cases = {}
    /\ nextCaseId = 1
    /\ schedRows = {}
    /\ CallersIdle
    /\ SchedulerStopped
    /\ EscalationIdle
    /\ CommandsIdle
    /\ UtilitiesIdle

\* the bot comes up with tempbans pending: every row has its tempban case
SchedInit ==
    /\ cases = {TempbanCase(r) : r \in RowIds}
    /\ nextCaseId = NumRows + 1
    /\ schedRows = RowIds
    /\ CallersIdle
    /\ SchedulerStopped
    /\ EscalationIdle
    /\ CommandsIdle
    /\ UtilitiesIdle

\* a /warn has just been recorded for the target: the store holds the case
\* history of the guild and checkEscalation is about to be called
EscInit ==
    /\ \E n0, n7 \in 0..MaxWarns :
          /\ n0 + n7 <= MaxWarns
          /\ cases = History(n0, n7)
          /\ nextCaseId = n0 + n7 + 5
    /\ schedRows = {}
    /\ CallersIdle
    /\ SchedulerStopped
    /\ EscalationIdle
    /\ CommandsIdle
    /\ UtilitiesIdle

\* the bot is up with one earlier case of the guild in the store
CmdInit ==
    /\ cases = {NewCase(1, BanGuild, 1, "warn", BanTarget, BanModerator, 0)}
    /\ nextCaseId = 2
    /\ schedRows = {}
    /\ CallersIdle
    /\ SchedulerStopped
    /\ EscalationIdle
    /\ CommandsIdle
    /\ UtilitiesIdle

\* the bot is up with a rate limit configuration and no request checked yet
RateInit ==
    /\ cases = {}
    /\ nextCaseId = 1
    /\ schedRows = {}
    /\ CallersIdle
    /\ SchedulerStopped
    /\ EscalationIdle
    /\ CommandsIdle
    /\ RetryIdle
    /\ ConfigLoaded
    /\ RateLimitsEmpty
    /\ rateConfig \in RateConfigs

Init == CaseInit \/ SchedInit \/ EscInit \/ CmdInit \/ RateInit

CaseNext ==
    \/ \E p \in Callers, g \in Guilds : CreateCaseSelect(p, g)
    \/ \E p \in Callers : CreateCaseInsert(p)
    \/ \E p \in Callers, g \in Guilds : CreateCaseSelectError(p, g)
    \/ \E p \in Callers : CreateCaseInsertError(p)
    \/ \E p \in Callers : CreateCaseReturn(p)
    \/ \E g \in Guilds, n \in 1..MaxCreates : DeleteCase(g, n)

PollStep(p) ==
    \/ PollQuery(p)
    \/ PollUnban(p)
    \/ PollUnbanFails(p)
    \/ PollUpdate(p)
    \/ PollNextNum(p)
    \/ PollInsert(p)
    \/ PollFinish(p)

SchedNext ==
    \/ StartTempbanScheduler
    \/ StopTempbanScheduler
    \/ \E t \in TimerIds : TimerFire(t)
    \/ AdvanceClock
    \/ \E p \in Polls : PollStep(p)
    \/ \E p \in Polls : PollStoreError(p)

EscNext ==
    \/ \E cfg \in Configs, moderator \in Moderators : CheckEscalation(cfg, moderator)
    \/ EscCount
    \/ EscFetch
    \/ EscMemberGone
    \/ EscApply
    \/ EscApplyFails
    \/ EscNextNum
    \/ EscInsert
    \/ EscStoreError
    \/ \E outcome \in LogOutcomes : EscLog(outcome)

HelperNext ==
    \/ \E moderator, target \in Positions : CallCheckHierarchy(moderator, target)
    \/ \E config \in DmConfigs, action \in ModActions : CallShouldSendDm(config, action)
    \/ \E action \in ModActions, outcome \in DmOutcomes :
          CallSendDmNotification(action, outcome)

LogStep ==
    \/ LogFetch
    \/ LogFetchFails
    \/ LogSend
    \/ LogSendFails

LogNext ==
    \/ \E config \in LogConfigs, action \in LogActions : SendModLogEmbed(config, action)
    \/ LogStep

BanNext ==
    \/ \E interaction \in Interactions : BanExecute(interaction)
    \/ BanDeferred
    \/ BanDeferFails
    \/ BanMemberFetched
    \/ BanMemberNotFetched
    \/ \E outcome \in DmOutcomes : BanDm(outcome)
    \/ BanApply
    \/ \E message \in ErrorMessages : BanApplyFails(message)
    \/ BanNextNum
    \/ BanInsert
    \/ BanStoreError
    \/ BanLog
    \/ BanLogged
    \/ BanReplySent
    \/ BanReplyFails
    \/ LogStep

SlowNext ==
    \/ \E text \in DurationTexts : SlowmodeExecute(text)
    \/ SlowmodeDeferred
    \/ SlowmodeDeferFails
    \/ SlowmodeSetRate
    \/ SlowmodeSetRateFails
    \/ SlowmodeReplySent
    \/ SlowmodeReplyFails

DurNext ==
    \/ \E text \in DurationTexts : CallParseDuration(text)
    \/ CallFormatDuration
    \/ CallParseFormatted

RetryNext ==
    \/ \E maxRetries \in RetryOptions, shouldRetry \in ShouldRetryOptions :
          WithRetry(maxRetries, shouldRetry)
    \/ RetryFnResolves
    \/ \E err \in RetryErrors : RetryFnThrows(err)
    \/ RetrySleepDone

ConfigNext ==
    \/ \E c \in SetCalls, section \in ConfigSections, key \in ConfigKeys,
          value \in NewValues : SetConfigValue(c, section, key, value)
    \/ \E c \in SetCalls, section \in ConfigSections : SetConfigBadPath(c, section)
    \/ \E c \in SetCalls : SetConfigWrite(c)
    \/ \E c \in SetCalls : SetConfigWriteFails(c)
    \/ \E c \in SetCalls : SetConfigResume(c)

RateNext ==
    \/ \E u \in UserIds, c \in RateChannelIds : CheckRateLimit(u, c)
    \/ CleanupOldEntries
    \/ MinutePasses

Next ==
    \/ CaseNext
    \/ SchedNext
    \/ EscNext
    \/ HelperNext
    \/ LogNext
    \/ BanNext
    \/ SlowNext
    \/ DurNext
    \/ RetryNext
    \/ ConfigNext
    \/ RateNext

CaseSpec == CaseInit /\ [][CaseNext]_vars

SchedSpec == SchedInit /\ [][SchedNext]_vars

EscSpec == EscInit /\ [][EscNext]_vars

HelperSpec == CmdInit /\ [][HelperNext]_vars

LogSpec == CmdInit /\ [][LogNext]_vars

BanSpec == CmdInit /\ [][BanNext]_vars

SlowSpec == CmdInit /\ [][SlowNext]_vars

DurSpec == CmdInit /\ [][DurNext]_vars

RetrySpec == CmdInit /\ [][RetryNext]_vars

ConfigSpec == CmdInit /\ [][ConfigNext]_vars

RateSpec == RateInit /\ [][RateNext]_vars

Spec == Init /\ [][Next]_vars

\* the bot is up with every tempban overdue: startTempbanScheduler has run,
\* the timer is set and the immediate poll has been called
LiveInit ==
    /\ cases = {TempbanCase(r) : r \in RowIds}
    /\ nextCaseId = NumRows + 1
    /\ schedRows = RowIds
    /\ CallersIdle
    /\ executed = [r \in RowIds |-> FALSE]
    /\ banned = [r \in RowIds |-> TRUE]
    /\ now = MaxNow
    /\ schedulerInterval = 1
    /\ timers = {1}
    /\ ppc = [p \in Polls |-> IF p = 1 THEN "query" ELSE "idle"]
    /\ prows = [p \in Polls |-> <<>>]
    /\ pidx = [p \in Polls |-> 0]
    /\ pnum = [p \in Polls |-> 0]
    /\ pattempted = [p \in Polls |-> {}]
    /\ lastCall = "started"
    /\ EscalationIdle
    /\ CommandsIdle
    /\ UtilitiesIdle

\* the scheduler left running with a store that answers: the interval timer
\* keeps firing and every poll in flight keeps getting its answers
LiveNext ==
    \/ \E t \in TimerIds : TimerFire(t)
    \/ \E p \in Polls : PollStep(p)

LiveSpec ==
    /\ LiveInit
    /\ [][LiveNext]_vars
    /\ WF_vars(\E t \in TimerIds : TimerFire(t))
    /\ \A p \in Polls : WF_vars(PollStep(p))

(* ----------------------- claims on the case store ---------------------- *)
AllocatesNumber(p) == cpc[p] = "idle" /\ cpc'[p] = "insert"

InsertsCase(p) == cpc[p] = "insert" /\ cpc'[p] = "done"

\* C1: concurrent createCase calls for one guild all succeed (none is
\* rejected unless the store itself failed), two finished calls of a guild
\* never hold the same number, and without deletions the numbers handed out
\* in a guild are exactly 1..N.
C1_ConcurrentCreatesAllSucceed ==
    /\ \A p \in Callers : cpc[p] = "failed" => cerr[p] = "store"
    /\ deleted = {} =>
          \A p, q \in Callers :
              (p # q /\ cpc[p] = "done" /\ cpc[q] = "done" /\ cguild[p] = cguild[q])
                  => cnum[p] # cnum[q]
    /\ deleted = {} =>
          \A g \in Guilds : issued[g] = 1..Cardinality(issued[g])

\* C2: no two persisted cases of one guild carry the same case number.
C2_NoDuplicateCaseNumbers ==
    \A c1, c2 \in cases :
        (c1.guild_id = c2.guild_id /\ c1.case_number = c2.case_number)
            => c1.id = c2.id

\* an INSERT lost the race for a number and was rejected, and a case of the
\* same store has been deleted
C2_Witness ==
    /\ \E p \in Callers : cpc[p] = "failed" /\ cerr[p] = "unique"
    /\ deleted # {}
    /\ cases # {}

C4_NextIsGuildMaxPlusOne ==
    [][\A p \in Callers :
          AllocatesNumber(p) =>
              LET own == {c \in cases : c.guild_id = cguild'[p]}
                  n == cnum'[p]
              IN  /\ own = {} => n = 1
                  /\ own # {} =>
                        /\ \E c \in own : c.case_number + 1 = n
                        /\ \A c \in own : c.case_number < n]_vars

\* a caller was given number 1 for a guild without cases while the other
\* guild already holds case number 2
C4_Witness ==
    \E p \in Callers :
        /\ cpc[p] = "insert"
        /\ cnum[p] = 1
        /\ GuildCases(cguild[p]) = {}
        /\ \E c \in cases : c.case_number = 2

(* ------------------- claims on the tempban scheduler ------------------- *)
\* the step is the end of an invocation (the ones after it are renumbered)
Settles ==
    Cardinality({p \in Polls : ppc'[p] # "idle"}) <
        Cardinality({p \in Polls : ppc[p] # "idle"})

Queries(p) == ~Settles /\ ppc[p] = "query" /\ ppc'[p] # "query"

UnbanFailsIn(p) ==
    ~Settles /\ ppc[p] = "unban" /\ ppc'[p] # "unban" /\ ppc'[p] # "update"

IsDue(r) == r \in schedRows /\ ~executed[r] /\ RowExecuteAt(r) <= now

Processing(p) == ppc[p] \in {"unban", "update", "nextnum", "insert"}

\* C5: a row whose executed flag is true is not in the result of any poll
\* that queries afterwards, and nothing is done for a row (unban, flag write,
\* unban case) except by a poll that selected it and is working on it.
C5_ExecutedRowNeverReselected ==
    [][/\ \A p \in Polls : Queries(p) =>
             \A r \in RowIds : executed[r] => r \notin Range(prows'[p])
       /\ \A r \in RowIds :
             (\/ banned'[r] # banned[r]
              \/ executed'[r] # executed[r]
              \/ /\ nextCaseId' # nextCaseId
                 /\ \E c \in cases' :
                       /\ c.id = nextCaseId
                       /\ c.action = "unban"
                       /\ c.ref = RowCaseId(r))
             => \E p \in Polls :
                    /\ ppc[p] \in {"unban", "update", "insert"}
                    /\ CurRow(p) = r
                    /\ r \in Range(prows[p])]_vars

\* a poll has queried while a row that is due from the start was already
\* executed, and works on another row
C5_Witness ==
    \E p \in Polls, r \in RowIds :
        /\ Processing(p)
        /\ executed[r]
        /\ RowExecuteAt(r) = 0
        /\ r \notin Range(prows[p])

\* C6: no error of a row escapes the poll, and a poll that has ended has
\* called the unban of every row its query returned.
C6_RowFailureIsolated ==
    \A p \in Polls :
        /\ ppc[p] # "raised"
        /\ ppc[p] = "done" => pattempted[p] = Range(prows[p])

\* a poll has ended whose first row failed (it is still banned and not
\* executed) and whose second row was processed to the end
C6_Witness ==
    \E p \in Polls :
        /\ ppc[p] = "done"
        /\ Len(prows[p]) >= 2
        /\ failures > 0
        /\ banned[prows[p][1]]
        /\ ~executed[prows[p][1]]
        /\ executed[prows[p][2]]
        /\ \E c \in cases : c.action = "unban" /\ c.ref = RowCaseId(prows[p][2])

C9_ExecutedMonotonic ==
    [][/\ schedRows \subseteq schedRows'
       /\ \A r \in RowIds :
             /\ executed[r] => executed'[r]
             /\ (~executed[r] /\ executed'[r]) =>
                   /\ ~banned[r]
                   /\ \E p \in Polls :
                         /\ ppc[p] = "update"
                         /\ CurRow(p) = r
                         /\ r \in pattempted[p]]_vars

\* one row is executed while another one, due as well, is not
C9_Witness ==
    \E r1, r2 \in RowIds : executed[r1] /\ ~banned[r1] /\ IsDue(r2) /\ banned[r2]

\* C10: at most one interval timer is active, and it is the one the handle
\* names; no step taken while running adds a timer; a start while running
\* and a stop while stopped change nothing of the scheduler, the polls (so no
\* poll is launched) or the store.
C10_AtMostOneTimer ==
    /\ [](/\ Cardinality(timers) <= 1
          /\ schedulerInterval = NoHandle => timers = {}
          /\ schedulerInterval # NoHandle => timers = {schedulerInterval})
    /\ [][/\ schedulerInterval # NoHandle =>
                timers' \subseteq timers
          /\ (lastCall' # lastCall /\ lastCall' \in {"start ignored", "stop ignored"})
                => UNCHANGED <<schedRows, executed, banned, now, schedulerInterval,
                               timers, pollVars, caseVars>>]_vars

\* start has been called while running, with a poll in flight: one timer is
\* active and the poll goes on
C10_Witness ==
    /\ lastCall = "start ignored"
    /\ Cardinality(timers) = 1
    /\ \E p \in Polls : Processing(p)

(* ------------------- claims on starting and stopping ------------------- *)
InFlight == {p \in Polls : ppc[p] # "idle"}

Starts == schedulerInterval = NoHandle /\ schedulerInterval' # NoHandle

\* the step calls pollTempbans: one more invocation is in flight
Launches ==
    Cardinality({p \in Polls : ppc'[p] # "idle"}) > Cardinality(InFlight)

\* exactly one invocation is added, and it stands before its query
LaunchesOne ==
    /\ Cardinality({p \in Polls : ppc'[p] # "idle"}) = Cardinality(InFlight) + 1
    /\ ppc'[Cardinality(InFlight) + 1] = "query"
    /\ \A p \in InFlight : ppc'[p] = ppc[p] /\ prows'[p] = prows[p]

\* C11: a start from the stopped state calls one poll at once and sets the
\* one interval timer; after that a poll is called only by that timer, one
\* per firing, and while the scheduler runs the timer stays set, so that it
\* can fire again whenever an invocation can be started.
C11_StartPollsAtOnceThenByTimer ==
    /\ [][Starts => (LaunchesOne /\ timers' = {schedulerInterval'})]_vars
    /\ [][(Launches /\ ~Starts) =>
             /\ schedulerInterval # NoHandle
             /\ schedulerInterval' = schedulerInterval
             /\ timers' = timers
             /\ LaunchesOne]_vars
    /\ []((schedulerInterval # NoHandle /\ IdlePolls # {}) =>
             ENABLED (\E t \in TimerIds : TimerFire(t)))

\* the scheduler was started, and the poll called at start and a poll called
\* by the timer are both in flight; the first works on a row that was due
\* at the start
C11_Witness ==
    /\ lastCall = "started"
    /\ Cardinality(InFlight) = 2
    /\ ppc[1] = "unban"
    /\ RowExecuteAt(CurRow(1)) = 0

\* C12: while the scheduler is stopped no poll is called; the stop itself
\* changes nothing of the invocations in flight, and an invocation in flight
\* can always take its next step, stopped or not.
C12_NoPollAfterStop ==
    /\ [][schedulerInterval = NoHandle =>
             (Launches => schedulerInterval' # NoHandle)]_vars
    /\ [][(schedulerInterval # NoHandle /\ schedulerInterval' = NoHandle) =>
             UNCHANGED <<pollVars, executed, banned, caseVars>>]_vars
    /\ [](\A p \in InFlight : ENABLED PollStep(p))

\* the latest call was a stop that took effect, no timer is left, and an
\* invocation called before the stop is still in flight, past its UPDATE
C12_Witness ==
    /\ lastCall = "stopped"
    /\ schedulerInterval = NoHandle
    /\ timers = {}
    /\ \E p \in Polls : ppc[p] \in {"nextnum", "insert"} /\ executed[CurRow(p)]

\* C13 as stated: at no time are two invocations of pollTempbans in flight.
C13_PollsSerialized == Cardinality(InFlight) <= 1

(* ---------------------- claims on auto-escalation ---------------------- *)
\* the warns of the target in the guild that are younger than the window
QualifyingWarns(days) ==
    Cardinality({c \in cases : /\ c.guild_id = EscGuild
                               /\ c.target_id = EscTarget
                               /\ c.action = "warn"
                               /\ c.created_days_ago < days})

\* threshold i of the config of the call is met by the case history
Met(i) ==
    QualifyingWarns(ecfg.thresholds[i].withinDays) >= ecfg.thresholds[i].warns

MetThresholds == {i \in 1..Len(ecfg.thresholds) : Met(i)}

FirstMet == CHOOSE i \in MetThresholds : \A j \in MetThresholds : i <= j

\* the cases checkEscalation has created
EscalationCases == {c \in cases : c.reason_days # 0}

Called == epc # "idle"

\* C14: a call with escalation disabled, or with no threshold list or an
\* empty one, has returned null, and has made no COUNT query, no guild or
\* member fetch, no timeout or ban, no store statement and no case.
C14_OffIsNoOp ==
    (Called /\ (~ecfg.enabled \/ ~ecfg.hasThresholds \/ ecfg.thresholds = <<>>))
        => /\ epc = "returned"
           /\ eresult = 0
           /\ equeries = 0
           /\ ~efetched
           /\ eapplied = <<>>
           /\ elog = NULL
           /\ failures = 0
           /\ EscalationCases = {}

\* a call with escalation disabled has returned although the config lists
\* two thresholds and the target has six warns of today
C14_Witness ==
    /\ epc = "returned"
    /\ ~ecfg.enabled
    /\ Len(ecfg.thresholds) = 2
    /\ QualifyingWarns(7) = 6

\* C15: the threshold that fires is the first one, in the order of the
\* config, that the history meets: every threshold before it was evaluated
\* and not met, none after it is evaluated, the action applied is its
\* action and no other, and at most one escalation case is created.
C15_FirstMatchWins ==
    /\ [][(epc = "count" /\ epc' = "fetch") =>
             /\ MetThresholds # {}
             /\ eidx = FirstMet
             /\ equeries' = FirstMet]_vars
    /\ [](/\ Len(eapplied) <= 1
          /\ Cardinality(EscalationCases) <= 1
          /\ eapplied # <<>> => eapplied[1] = ecfg.thresholds[FirstMet].action
          /\ \A c \in EscalationCases : c.action = ecfg.thresholds[FirstMet].action
          /\ equeries <= Len(ecfg.thresholds))

\* thresholds [3 warns in 7 days -> timeout, 5 warns in 30 days -> ban] and
\* six warns of today: the call has returned the one escalation case, a
\* timeout, and no ban was applied
C15_Witness ==
    /\ epc = "returned"
    /\ ecfg.enabled
    /\ ecfg.thresholds = <<Threshold(3, 7, "timeout"), Threshold(5, 30, "ban")>>
    /\ QualifyingWarns(7) = 6
    /\ eapplied = <<"timeout">>
    /\ \E c \in cases : c.id = eresult /\ c.action = "timeout"
    /\ Cardinality(EscalationCases) = 1

\* C16: the COUNT of a threshold is the number of warns of the target in the
\* guild younger than withinDays, and the threshold fires exactly when that
\* number is at least its warns; a call that has returned with no threshold
\* met has returned null, applied nothing and created no case; a call that
\* returns a case returns one with the action and the duration of the
\* threshold that was met.
C16_FiresIffCountReached ==
    /\ [][(epc = "count" /\ epc' # "raised" /\ equeries' # equeries) =>
             LET th == ecfg.thresholds[eidx]
                 n  == QualifyingWarns(th.withinDays)
             IN  /\ ecount' = n
                 /\ (epc' = "fetch") <=> (n >= th.warns)]_vars
    /\ []((epc = "returned" /\ MetThresholds = {}) =>
             (eresult = 0 /\ eapplied = <<>> /\ ~efetched /\ EscalationCases = {}))
    /\ []((epc = "returned" /\ eresult # 0) =>
             /\ MetThresholds # {}
             /\ \E c \in cases :
                   /\ c.id = eresult
                   /\ c.action = ecfg.thresholds[FirstMet].action
                   /\ c.duration = ecfg.thresholds[FirstMet].duration)

\* threshold {3 warns, 7 days, timeout, 1h} and exactly three warns inside
\* the window: the call has returned a new timeout case with duration 1h
C16_Witness ==
    /\ epc = "returned"
    /\ ecfg.thresholds = <<Threshold(3, 7, "timeout")>>
    /\ QualifyingWarns(7) = 3
    /\ \E c \in cases :
          c.id = eresult /\ c.action = "timeout" /\ c.duration = "1h"

\* C17: the case checkEscalation inserts is a case of the guild and the
\* target with the action of the threshold that fired, a reason made of the
\* counted warns and the window of that threshold, and the moderator the
\* call was given, never the bot.
C17_CaseAttributedToModerator ==
    [][(epc = "insert" /\ epc' = "log") =>
          \E c \in cases' :
              /\ c \notin cases
              /\ cases' = cases \cup {c}
              /\ c.id = eresult'
              /\ c.guild_id = EscGuild
              /\ c.target_id = EscTarget
              /\ c.action = ecfg.thresholds[eidx].action
              /\ c.reason_count = QualifyingWarns(ecfg.thresholds[eidx].withinDays)
              /\ c.reason_days = ecfg.thresholds[eidx].withinDays
              /\ c.moderator_id = emod
              /\ c.moderator_id # BotId]_vars

\* a call made for moderator mod2 has returned a ban case whose reason names
\* five warns in thirty days and whose moderator is mod2
C17_Witness ==
    /\ epc = "returned"
    /\ emod = "mod2"
    /\ \E c \in cases :
          /\ c.id = eresult
          /\ c.action = "ban"
          /\ c.reason_count = 5
          /\ c.reason_days = 30
          /\ c.moderator_id = "mod2"

\* C18: when the timeout or ban call fails, checkEscalation ends with the
\* error: it returns nothing, neither null nor a case, and creates no case.
C18_ActionFailurePropagates ==
    /\ [][(epc = "action" /\ epc' # "nextnum") =>
             /\ epc' = "raised"
             /\ eresult' = 0
             /\ cases' = cases]_vars
    /\ [](epc = "raised" => (eresult = 0 /\ elog = NULL))

\* the call has ended with an error after the member was fetched, with no
\* store statement having failed: the action call was rejected
C18_Witness ==
    /\ epc = "raised"
    /\ efetched
    /\ failures = 0
    /\ eapplied = <<>>
    /\ EscalationCases = {}

\* C19: when the member fetch fails after a threshold has fired, the call
\* returns null and raises nothing, and neither an action nor a case follows.
C19_MemberGoneReturnsNull ==
    /\ [][(epc = "fetch" /\ epc' # "action") =>
             /\ epc' = "returned"
             /\ eresult' = 0
             /\ eapplied' = <<>>
             /\ cases' = cases]_vars
    /\ []((epc = "returned" /\ efetched /\ eapplied = <<>>) =>
             (eresult = 0 /\ EscalationCases = {}))

\* a threshold was met, the member fetch was made, and the call has returned
\* null with no action applied and no case created
C19_Witness ==
    /\ epc = "returned"
    /\ MetThresholds # {}
    /\ efetched
    /\ eapplied = <<>>
    /\ eresult = 0
    /\ EscalationCases = {}

\* C20: whatever becomes of the mod-log post, checkEscalation returns the
\* case it created: the post changes neither the result nor the case and
\* never ends the call with an error.
C20_LogFailureIgnored ==
    [][epc = "log" =>
          /\ epc' = "returned"
          /\ eresult # 0
          /\ eresult' = eresult
          /\ cases' = cases
          /\ \E c \in cases : c.id = eresult]_vars

\* the send of the mod-log embed was rejected and the call has returned the
\* escalation case, with the action applied
C20_Witness ==
    /\ epc = "returned"
    /\ elog = "send failed"
    /\ eresult # 0
    /\ Len(eapplied) = 1
    /\ \E c \in cases : c.id = eresult /\ c.action = eapplied[1]

(* ------------------ claims on the helpers and on /ban ------------------ *)
\* C21: checkHierarchy returns null exactly when the moderator's highest
\* role position is strictly greater than the target's, and the rejection
\* message ('cannot moderate') for an equal or a lower position.
C21_HierarchyStrictlyAbove ==
    hfn = "checkHierarchy" =>
        /\ (hout = NULL) <=> (hpos[1] > hpos[2])
        /\ (hpos[1] <= hpos[2]) => hout = "cannot moderate"

\* checkHierarchy was called for a target of the moderator's own position
\* and has returned the rejection
C21_Witness ==
    /\ hfn = "checkHierarchy"
    /\ hpos[1] = hpos[2]
    /\ hout = "cannot moderate"

\* the target is a member and the hierarchy check of /ban rejects
BanRejected ==
    /\ bmember = "member"
    /\ \/ bin.target >= bin.moderator
       \/ bin.botPresent /\ bin.target >= bin.bot

\* C22: when the target is a member whose top role is at or above the
\* moderator's or the bot's, /ban sends the rejection as its reply and makes
\* no DM, no ban call, no createCase call and no mod-log post; the moderator
\* never gets the confirmation.
C22_RejectionStopsBan ==
    /\ [](BanRejected =>
             /\ bcalls = <<>>
             /\ bcase = 0
             /\ \A c \in cases : c.action # "ban"
             /\ failures = 0
             /\ lpc = "idle"
             /\ breply \in {NULL, HierarchyError, BotRoleError, FailedToExecute}
             /\ bpc \in {"reply", "fail reply", "done"})
    /\ [][(bpc = "fetch" /\ BanRejected') =>
             /\ bpc' = "reply"
             /\ bcontent' = IF bin.target >= bin.moderator
                            THEN HierarchyError ELSE BotRoleError]_vars

\* the moderator outranks the target, the bot does not, and /ban has ended
\* with the bot-role rejection as its reply and nothing done
C22_Witness ==
    /\ bpc = "done"
    /\ bmember = "member"
    /\ bin.moderator > bin.target
    /\ bin.botPresent
    /\ bin.target >= bin.bot
    /\ breply = BotRoleError
    /\ bcalls = <<>>

DmCalls == {"dm delivered", "dm rejected"}

BanCalls == {"ban", "ban rejected"}

\* the config has the ban toggle of dmNotifications set to true
BanDmEnabled ==
    /\ bin.config.hasDmNotifications
    /\ bin.config.dmNotifications["ban"] = "true"

C24_DmNeverRaises ==
    hfn = "sendDmNotification" => hout = "resolved"

\* member.send rejected (DMs disabled) and the call has resolved
C24_Witness ==
    /\ hfn = "sendDmNotification"
    /\ hsend = "rejected"
    /\ hout = "resolved"

\* C25: shouldSendDm returns true exactly when the dmNotifications section
\* exists and holds a true toggle for the action, where tempban and softban
\* read the toggle of ban; with no section, no toggle or a false toggle it
\* returns false.
C25_DmToggle ==
    hfn = "shouldSendDm" =>
        LET key == IF haction \in {"tempban", "softban"} THEN "ban" ELSE haction
        IN  (hout = "true") <=>
                /\ hcfg.hasDmNotifications
                /\ key \in DOMAIN hcfg.dmNotifications
                /\ hcfg.dmNotifications[key] = "true"

\* shouldSendDm(config, 'tempban') has returned true on a config whose only
\* toggle set is ban: true
C25_Witness ==
    /\ hfn = "shouldSendDm"
    /\ haction = "tempban"
    /\ hcfg.dmNotifications["ban"] = "true"
    /\ \A k \in DmKeys \ {"ban"} : hcfg.dmNotifications[k] = "undefined"
    /\ hout = "true"

\* C26: the channel sendModLogEmbed resolves is the action-specific one when
\* it is set, else the default one when it is set, else none; it is the only
\* channel the call ever fetches.
C26_ChannelPrecedence ==
    lpc # "idle" =>
        LET key == IF laction = "ban" THEN "bans" ELSE "warns"
        IN  /\ lcfg.hasLogging /\ lcfg.channels[key] # NULL
                => lchan = lcfg.channels[key]
            /\ lcfg.hasLogging /\ lcfg.channels[key] = NULL
                => lchan = lcfg.channels["default"]
            /\ ~lcfg.hasLogging => lchan = NULL
            /\ \A i \in 1..Len(lfetches) : lfetches[i] = lchan

\* with default 123 and bans 456 a ban was logged to 456, and only 456 was
\* fetched
C26_Witness ==
    /\ lpc = "returned"
    /\ laction = "ban"
    /\ lcfg.hasLogging
    /\ lcfg.channels["default"] = "123"
    /\ lcfg.channels["bans"] = "456"
    /\ lfetches = <<"456">>
    /\ lresult = SentMessage

\* C27: sendModLogEmbed never ends with an error: with no channel resolved
\* it returns null and has not called the channel fetch; when the fetch or
\* the send is rejected it returns null; when the send resolves it returns
\* the message.
C27_ModLogNeverRaises ==
    /\ [](lpc \in {"idle", "fetch", "send", "returned"})
    /\ []((lpc = "returned" /\ lchan = NULL) =>
             (lresult = NULL /\ lfetches = <<>>))
    /\ [][(lpc = "fetch" /\ lpc' # "send") =>
             (lpc' = "returned" /\ lresult' = NULL)]_vars
    /\ [][lpc = "send" =>
             (lpc' = "returned" /\ lresult' \in {NULL, SentMessage})]_vars
    /\ []((lpc = "returned" /\ lresult # NULL) =>
             (lresult = SentMessage /\ lfetches = <<lchan>>))

\* the channel was resolved and fetched, the delivery failed, and the call
\* has returned null
C27_Witness ==
    /\ lpc = "returned"
    /\ lchan # NULL
    /\ lfetches = <<lchan>>
    /\ lresult = NULL

\* the ban went through and createCase has thrown
CreateCaseFailed ==
    /\ \E i \in 1..Len(bcalls) : bcalls[i] = "ban"
    /\ bcase = 0
    /\ bpc \in {"fail reply", "done"}

C29_RoundTrip ==
    dback # NotRun => dback = dms

\* C30: /slowmode applies min(floor(ms / 1000), 21600) seconds for every
\* duration parseDuration accepts, ms being what it returned; it applies 0
\* for the bare "0"; and for a text parseDuration does not accept it calls
\* setRateLimitPerUser not at all and sends the 'Invalid duration' reply.
C30_RateLimitApplied ==
    spc \in {"set", "reply", "fail reply", "done"} =>
        LET ms == ParseDuration(stext)
            expected == IF ms \div 1000 < 21600 THEN ms \div 1000 ELSE 21600
        IN  /\ stext = ZeroText =>
                /\ sseconds = 0
                /\ spc = "set" \/ ssets = 1
                /\ srate \in {NoRate, 0}
            /\ (stext # ZeroText /\ ms # Unparseable) =>
                /\ sseconds = expected
                /\ spc = "set" \/ ssets = 1
                /\ srate \in {NoRate, expected}
            /\ (stext # ZeroText /\ ms = Unparseable) =>
                /\ ssets = 0
                /\ srate = NoRate
                /\ scontent \in {InvalidDuration, SlowmodeFailed}
                /\ sreply \in {NULL, InvalidDuration, SlowmodeFailed}


(* ---------- claims on withRetry, setConfigValue, checkRateLimit --------- *)
\* C31: withRetry invokes fn at most maxRetries + 1 times (4 times with the
\* default of 3 retries). It returns at the first success; it rethrows at once
\* an error shouldRetry refuses, so that only the last error can be one that
\* is not retried; and it rethrows the last error once fn has failed
\* maxRetries + 1 times.
C31_AtMostMaxRetriesPlusOne ==
    /\ rcalls <= rmax + 1
    /\ rpc = "sleep" => rcalls < rmax + 1 /\ rcalls = Len(rerrors)
    /\ rpc = "call" => rcalls = Len(rerrors) + 1
    /\ rpc = "returned" => rcalls = Len(rerrors) + 1 /\ rthrown = 0
    /\ rpc = "raised" =>
          /\ rcalls = Len(rerrors)
          /\ rthrown = Len(rerrors)
          /\ rcalls = rmax + 1 \/ ~ShouldRetry(rshould, rerrors[rthrown])
    /\ \A i \in 1..Len(rerrors) :
          ~ShouldRetry(rshould, rerrors[i]) => i = Len(rerrors) /\ rpc = "raised"

\* with the default options fn has failed four times with a retryable error
\* and the last error was rethrown
C31_Witness ==
    /\ rpc = "raised"
    /\ rshould = NULL
    /\ rmax = DefaultMaxRetries
    /\ rcalls = DefaultMaxRetries + 1
    /\ \A i \in 1..Len(rerrors) : IsRetryable(rerrors[i])

RECURSIVE SumOver(_, _)
SumOver(f, S) ==
    IF S = {} THEN 0
    ELSE LET t == CHOOSE x \in S : TRUE IN f[t] + SumOver(f, S \ {t})

\* the minutes of the sliding window of the given length that starts at a
WindowFrom(a, length) == {t \in Minutes : a <= t /\ t < a + length}

\* C37: with rate limiting enabled, within every sliding window of
\* perUser.windowMinutes the requests of one user answered allowed number at
\* most perUser.requestsPerMinute, and within every sliding window of
\* perChannel.windowMinutes the requests in one channel answered allowed number
\* at most perChannel.requestsPerMinute.
C37_WindowNeverExceeded ==
    rateConfig.enabled =>
        /\ \A u \in UserIds, a \in Minutes :
              SumOver(userAllowed[u], WindowFrom(a, rateConfig.perUser.windowMinutes))
                  <= rateConfig.perUser.requestsPerMinute
        /\ \A c \in RateChannelIds, a \in Minutes :
              SumOver(channelAllowed[c],
                      WindowFrom(a, rateConfig.perChannel.windowMinutes))
                  <= rateConfig.perChannel.requestsPerMinute

\* a user has used up a limit of two within a window that spans two minutes
\* and the next request of that minute was denied
C37_Witness ==
    /\ rateConfig.enabled
    /\ rateConfig.perUser = Limit(2, 2)
    /\ lastCheck.allowed = "false"
    /\ lastCheck.type = "user"
    /\ \E u \in UserIds :
          /\ clock >= 1
          /\ userAllowed[u][clock] = 1
          /\ userAllowed[u][clock - 1] = 1

\* the entries of a stored list made in the current minute
StampedNow(timestamps) ==
    Cardinality({i \in 1..Len(timestamps) : timestamps[i] = clock})

\* C38: a checkRateLimit call that is denied leaves the stored request lists
\* of every user and every channel as they were; a stored list gains an entry
\* only in a step that answers allowed.
C38_DeniedRecordsNothing ==
    [][/\ lastCheck' # lastCheck /\ lastCheck'.allowed = "false" =>
             UNCHANGED <<userRateLimits, channelRateLimits>>
       /\ \/ \E u \in UserIds :
                StampedNow(userRateLimits'[u]) > StampedNow(userRateLimits[u])
          \/ \E c \in RateChannelIds :
                StampedNow(channelRateLimits'[c]) > StampedNow(channelRateLimits[c])
          => /\ lastCheck'.allowed = "true"
             /\ userAllowed' # userAllowed
             /\ channelAllowed' # channelAllowed]_vars

\* a request was denied by the channel limit while some user, who has had no
\* request allowed, has no stored timestamp
C38_Witness ==
    /\ rateConfig.enabled
    /\ lastCheck.allowed = "false"
    /\ lastCheck.type = "channel"
    /\ \E u \in UserIds :
          /\ userRateLimits[u] = <<>>
          /\ \A t \in Minutes : userAllowed[u][t] = 0

\* C39: when two setConfigValue calls that set different keys of the same
\* section have run concurrently (each began before the other had updated the
\* cache) and both have resolved, the cache and the stored section hold both
\* new values.
C39_NoLostUpdate ==
    \A c, d \in SetCalls :
        /\ c # d
        /\ setpc[c] = "resolved"
        /\ setpc[d] = "resolved"
        /\ setarg[c][1] = setarg[d][1]
        /\ setarg[c][2] # setarg[d][2]
        /\ cacheBefore[c] = cacheBefore[d]
        => /\ configCache[setarg[c][1]][setarg[c][2]] = setarg[c][3]
           /\ configCache[setarg[c][1]][setarg[d][2]] = setarg[d][3]
           /\ configTable[setarg[c][1]][setarg[c][2]] = setarg[c][3]
           /\ configTable[setarg[c][1]][setarg[d][2]] = setarg[d][3]


(* --------- claims on the order of action and record keeping ------------ *)
BanFailed == \E i \in 1..Len(bcalls) : bcalls[i] = "ban rejected"

BanSucceeded == \E i \in 1..Len(bcalls) : bcalls[i] = "ban"

C34_CaseOnlyAfterAction ==
    /\ [](\A c \in EscalationCases : eapplied = <<c.action>>)
    /\ [](eapplied = <<>> => EscalationCases = {} /\ eresult = 0)
    /\ [][cases' # cases => eapplied # <<>> /\ eapplied' = eapplied]_vars
    /\ [][(epc \in {"fetch", "action"} /\ epc' \notin {"action", "nextnum"}) =>
             /\ epc' \in {"returned", "raised"}
             /\ eapplied' = <<>>
             /\ EscalationCases' = {}]_vars

\* a ban threshold was met, the ban was applied and the escalation case of
\* the ban is in the store
C34_Witness ==
    /\ epc = "returned"
    /\ eapplied = <<"ban">>
    /\ eresult # 0
    /\ \E c \in EscalationCases : c.id = eresult /\ c.action = "ban"

\* the unban cases recorded for the guild and target of a row
UnbanCasesOf(r) ==
    {c \in cases : /\ c.action = "unban"
                   /\ c.guild_id = RowGuild(r)
                   /\ c.target_id = RowTarget(r)}

\* C35: whenever no poll is in flight, every scheduled row whose executed
\* flag is true has exactly one unban case for its guild and target.
C35_ExecutedRowHasUnbanCase ==
    (\A p \in Polls : ppc[p] = "idle") =>
        \A r \in schedRows : executed[r] => Cardinality(UnbanCasesOf(r)) = 1

====
